---- MODULE Spec2Model ----
(***************************************************************************)
(* A state-machine model of the real-time pipeline of the Consciousness OS *)
(* backend: the acquisition loop of MuseStreamer (src/backend/             *)
(* muse_stream.py), the per-chunk callback process_sensor_data and the     *)
(* module-level session state of src/backend/main.py, the StateSmoother    *)
(* (src/backend/state_smoother.py), the ICA calibration driven by main.py  *)
(* through MNEProcessor (src/backend/mne_processor.py) and the WebSocket   *)
(* ConnectionManager of main.py.                                           *)
(*                                                                         *)
(* Numerical code (filters, spectra, ICA) is not computed: its results are *)
(* inputs of the actions, drawn from small sets, and the model keeps the   *)
(* control flow and the data flow (which channels, which windows, which    *)
(* labels reach which place).                                              *)
(***************************************************************************)
EXTENDS Integers, Sequences, FiniteSets, TLC

(***************************************************************************)
(* Bounds of the model.  The loop thresholds and buffer sizes of the code  *)
(* (100 consecutive errors, 50 empty polls, 5 s, 256 samples, 30 windows,  *)
(* window_size 10/30/5) are scaled down to these; the comparisons keep the *)
(* shape they have in the code.                                            *)
(***************************************************************************)
\* max_consecutive_errors (100 in the code), scaled
MaxConsecutiveErrors == 2
\* max_no_data_iterations (50 in the code), scaled
MaxNoDataIterations == 2
\* the 5.0 s stall window of stream_data, in loop-clock units
StallTimeout == 2
\* largest max_reconnect_attempts a call is made with
MaxReconnectArg == 2
\* BUFFER_SIZE (256 in the code), scaled
BufferSize == 2
\* the 30 one-second windows of the ICA calibration, scaled
IcaWindows == 2
\* StateSmoother window_size (10 at import, 30 after connect, 5 after disconnect), scaled
WindowSize == 3
\* the wall clock stops advancing here
MaxTime == 20
\* one advance of the wall clock, in seconds
ClockStep == 5
\* subscribers that may connect to /ws
MaxSubscribers == 2
\* maxlen of HRVCalculator.ppg_buffer (2000 in the code), scaled
PpgBufferLen == 2
\* PPG samples detect_peaks needs before it looks for peaks (10 samples spanning
\* 3 s in the code), scaled
PpgMin == 2
\* most peaks one detection returns
MaxPeaks == 3
\* posture readings needed before the first posture lock (5 in the code), scaled
PostureMin == 2
\* gyro readings TalkingDetector needs before it analyses (sample_rate = 52), scaled
GyroMin == 1
\* maxlen of TalkingDetector.detection_history (10 in the code), scaled
TalkWindow == 2
\* one-second windows that fill the ArtifactDetector baseline (5 in the code), scaled
BaselineWindows == 1

(***************************************************************************)
(* Program constants.                                                      *)
(***************************************************************************)
\* StateSmoother.min_state_duration
min_state_duration == 10
\* threshold passed to detect_bad_channels by process_sensor_data
BadChannelThreshold == 200
\* POSTURE_MIN_DURATION of main.py, in seconds
POSTURE_MIN_DURATION == 10

VARIABLES
    \* ---- MuseStreamer and the frame of one stream_data call
    is_streaming,           \* MuseStreamer.is_streaming
    eeg_inlet,              \* TRUE: an open StreamInlet, FALSE: None
    opt_inlets,             \* ppg_inlet, acc_inlet, gyro_inlet: TRUE when not None
    opt_streams,            \* environment: the optional LSL streams that resolve and open
    pc,                     \* where the stream_data coroutine stands
    auto_reconnect,         \* argument of stream_data
    max_reconnect_attempts, \* argument of stream_data
    reconnect_attempts,     \* local of stream_data
    consecutive_errors,     \* local of stream_data (saturates at the threshold)
    no_data_count,          \* local of stream_data (saturates at the threshold)
    time_since_data,        \* loop.time() - last_data_time (saturates above the stall window)
    link,                   \* environment: "up" when an LSL stream can be resolved
    failed_reconnects,      \* history: consecutive reconnect attempts whose connect() failed
    lost_by,                \* history: why the inner loop was last left
    older,                  \* a stream_data task that a later connect_muse found suspended
    \* ---- module-level session state of main.py
    eeg_buffer,             \* the four deques, as one sequence of 4-channel samples
    ppg_buffer,             \* hrv_calculator.ppg_buffer, as its length
    samples_received,       \* history: EEG samples pushed since the last reset (saturates)
    hrv,                    \* the rest of hrv_calculator, and what its last call returned
    ica_fitted,
    ica_fit_buffer,         \* number of windows appended
    ica_fit_progress,
    mne_ica_fitted,         \* mne_processor.ica_fitted
    mne_ica,                \* mne_processor.ica is not None
    state_smoother,         \* the StateSmoother object (a record)
    now,                    \* time.time()
    outbound,               \* the last band_powers record broadcast
    tick_info,              \* history: what the last processing tick computed
    motion,                 \* posture lock, TalkingDetector and ArtifactDetector state
    \* ---- ConnectionManager and the frame of one broadcast call
    active_connections,     \* list of subscribers
    cb_pc,                  \* where process_sensor_data stands while it is suspended
    bc_index,               \* position of the for-loop iterator over active_connections
    bc_sending,             \* the subscriber whose send_json is awaited, 0 when none
    bc_disconnected,        \* local list `disconnected` of broadcast
    bc_sent,                \* history: sends made to each subscriber in this broadcast
    bc_present,             \* history: subscribers registered during the whole broadcast
    bc_last                 \* history: bc_present and bc_sent of the last broadcast that returned

streamVars == <<is_streaming, eeg_inlet, opt_inlets, opt_streams, pc, auto_reconnect, max_reconnect_attempts,
                reconnect_attempts, consecutive_errors, no_data_count, time_since_data,
                link, failed_reconnects, lost_by, older>>
bufferVars == <<eeg_buffer, ppg_buffer, samples_received>>
icaVars == <<ica_fitted, ica_fit_buffer, ica_fit_progress, mne_ica_fitted, mne_ica>>
tickVars == <<ica_fitted, ica_fit_buffer, ica_fit_progress, mne_ica_fitted, mne_ica,
              state_smoother, outbound, tick_info, motion>>
sessionVars == <<eeg_buffer, ppg_buffer, samples_received, hrv, ica_fitted, ica_fit_buffer, ica_fit_progress,
                 mne_ica_fitted, mne_ica, state_smoother, outbound, tick_info, motion>>
bcastVars == <<active_connections, cb_pc, bc_index, bc_sending, bc_disconnected,
               bc_sent, bc_present, bc_last>>
vars == <<is_streaming, eeg_inlet, opt_inlets, opt_streams, pc, auto_reconnect, max_reconnect_attempts,
          reconnect_attempts, consecutive_errors, no_data_count, time_since_data,
          link, failed_reconnects, lost_by, older,
          eeg_buffer, ppg_buffer, samples_received, hrv,
          ica_fitted, ica_fit_buffer, ica_fit_progress,
          mne_ica_fitted, mne_ica, state_smoother, now, outbound, tick_info, motion,
          active_connections, cb_pc, bc_index, bc_sending, bc_disconnected,
          bc_sent, bc_present, bc_last>>

Channels == 0..3
\* the optional streams of MuseStreamer.connect
Optional == {"ppg", "acc", "gyro"}
Subscribers == 1..MaxSubscribers

Min(a, b) == IF a < b THEN a ELSE b
Abs(x) == IF x < 0 THEN -x ELSE x

RECURSIVE SeqSum(_)
SeqSum(s) == IF s = <<>> THEN 0 ELSE Head(s) + SeqSum(Tail(s))

\* collections.deque(maxlen=n).append: the oldest element is evicted on overflow
DequeAppend(d, x, maxlen) ==
    IF Len(d) >= maxlen THEN Append(Tail(d), x) ELSE Append(d, x)

\* list.remove(x) for an x that occurs in s: the first occurrence is removed
RECURSIVE ListRemove(_, _)
ListRemove(s, x) ==
    IF s = <<>> THEN <<>>
    ELSE IF Head(s) = x THEN Tail(s)
    ELSE <<Head(s)>> \o ListRemove(Tail(s), x)

InList(s, x) == \E i \in 1..Len(s) : s[i] = x

(***************************************************************************)
(* signal_processor.get_brain_state.  Band powers are percentages; the     *)
(* operator takes them as integers over a common denominator d (d = 1 for  *)
(* one tick's powers, d = the window length for the smoother's per-band    *)
(* means, d = PercentUnit for the values calculate_band_powers returns),   *)
(* so that a mean is compared exactly: x/d > k is x > k*d.                 *)
(* beta / (alpha + 1e-6) > 1.5 is 2*beta > 3*alpha + 3*d/10^6, which on    *)
(* integers is beta - alpha > (alpha + (3*d) \div 10^6) \div 2; written so, no    *)
(* product leaves the 32-bit range.  A dict is a record; {} is <<>>.       *)
(***************************************************************************)
\* the resolution of a percentage returned by calculate_band_powers: 1e-7 percent
PercentUnit == 10000000

\* the largest integrated power of one band
MaxBandPower == 2

SAMPLE_RATE == 256

\* clock ticks per second where a TalkingDetector is called on its own
TalkTicks == 4

\* the clock of those calls stops here
MaxTalkTime == 8

Bands == {"delta", "theta", "alpha", "beta", "gamma"}

ZeroPowers == [band \in Bands |-> 0]

BandTotal(bp) == bp.delta + bp.theta + bp.alpha + bp.beta + bp.gamma

\* SignalProcessor.calculate_band_powers (lines 68-111).  n_samples is len(data);
\* band_power holds the five integrals of the Welch density, which are never
\* negative.  A returned percentage is a float; here it is a whole number of
\* 1/PercentUnit percent, rounded down, which is coarser than a float64.
Percent(power, total) ==
    LET q == (power * 100) \div total
        r == (power * 100) % total
    IN q * PercentUnit + (r * PercentUnit) \div total

\* calculate_band_powers dividing by the largest band integral, not by their sum
calculate_band_powers_by_peak(n_samples, band_power) ==
    IF n_samples < SAMPLE_RATE THEN ZeroPowers
    ELSE LET peak == CHOOSE p \in {band_power[b] : b \in Bands} :
                         \A b \in Bands : band_power[b] <= p
         IN IF peak > 0
            THEN [band \in Bands |-> Percent(band_power[band], peak)]
            ELSE band_power

\* calculate_band_powers without the test of the window length
calculate_band_powers_any_length(n_samples, band_power) ==
    LET total_power == BandTotal(band_power)
    IN IF total_power > 0
       THEN [band \in Bands |-> Percent(band_power[band], total_power)]
       ELSE band_power

calculate_band_powers(n_samples, band_power) ==
    IF n_samples < SAMPLE_RATE THEN ZeroPowers
    ELSE LET total_power == BandTotal(band_power)
         IN IF total_power > 0
            THEN [band \in Bands |-> Percent(band_power[band], total_power)]
            ELSE band_power

MeditationState(bp, d) ==
    IF bp.theta > 20 * d /\ bp.alpha > 25 * d /\ bp.beta < 15 * d THEN "deep_meditation"
    ELSE IF bp.theta > 15 * d \/ bp.alpha > 30 * d THEN "meditative"
    ELSE IF (bp.theta > 10 * d \/ bp.alpha > 20 * d) /\ bp.beta < 20 * d
        THEN "entering_meditation"
    ELSE IF bp.beta > 20 * d /\ bp.alpha < 20 * d THEN "returning"
    ELSE IF bp.alpha > bp.delta /\ bp.alpha > bp.beta THEN "relaxed"
    ELSE IF bp.theta > bp.delta /\ bp.theta > bp.beta THEN "meditative"
    ELSE "mixed"

\* the conversation rules with peak_focus tried before focused
ConversationStatePeakFirst(bp, d) ==
    IF bp.delta > 40 * d THEN "mixed"
    ELSE IF bp.gamma > 15 * d /\ bp.beta > 25 * d THEN "peak_focus"
    ELSE IF /\ bp.beta > 30 * d
            /\ bp.beta - bp.alpha > (bp.alpha + (3 * d) \div 1000000) \div 2
        THEN "focused"
    ELSE IF bp.alpha > 30 * d /\ bp.beta < 20 * d THEN "relaxed"
    ELSE IF bp.theta > 25 * d /\ bp.alpha > 20 * d THEN "creative"
    ELSE IF bp.delta > 30 * d /\ bp.theta > 20 * d /\ bp.delta < 40 * d THEN "drowsy"
    ELSE IF bp.beta > 20 * d \/ bp.gamma > 10 * d THEN "focused"
    ELSE IF bp.alpha > 20 * d THEN "relaxed"
    ELSE IF bp.theta > 15 * d THEN "creative"
    ELSE IF bp.delta < 30 * d THEN "relaxed"
    ELSE "mixed"

ConversationState(bp, d) ==
    IF bp.delta > 40 * d THEN "mixed"
    ELSE IF /\ bp.beta > 30 * d
            /\ bp.beta - bp.alpha > (bp.alpha + (3 * d) \div 1000000) \div 2
        THEN "focused"
    ELSE IF bp.gamma > 15 * d /\ bp.beta > 25 * d THEN "peak_focus"
    ELSE IF bp.alpha > 30 * d /\ bp.beta < 20 * d THEN "relaxed"
    ELSE IF bp.theta > 25 * d /\ bp.alpha > 20 * d THEN "creative"
    ELSE IF bp.delta > 30 * d /\ bp.theta > 20 * d /\ bp.delta < 40 * d THEN "drowsy"
    ELSE IF bp.beta > 20 * d \/ bp.gamma > 10 * d THEN "focused"
    ELSE IF bp.alpha > 20 * d THEN "relaxed"
    ELSE IF bp.theta > 15 * d THEN "creative"
    ELSE IF bp.delta < 30 * d THEN "relaxed"
    ELSE "mixed"

\* get_brain_state with a warm-up: "unknown" until the smoother holds a full
\* window of labels
get_brain_state_warmup(bp, d, is_meditation) ==
    IF DOMAIN bp = {} \/ BandTotal(bp) = 0 THEN "unknown"
    ELSE IF Len(state_smoother.brain_state_history) < WindowSize THEN "unknown"
    ELSE IF is_meditation THEN MeditationState(bp, d)
    ELSE ConversationState(bp, d)

get_brain_state(bp, d, is_meditation) ==
    IF DOMAIN bp = {} \/ BandTotal(bp) = 0 THEN "unknown"
    ELSE IF is_meditation THEN MeditationState(bp, d)
    ELSE ConversationState(bp, d)

(***************************************************************************)
(* StateSmoother (state_smoother.py).  The object is a record; "None" is   *)
(* Python's None for current_stable_state.                                 *)
(***************************************************************************)
NewStateSmoother(window_size) ==
    [window_size |-> window_size,
     band_power_history |-> <<>>,
     signal_quality_history |-> <<>>,
     brain_state_history |-> <<>>,
     has_artifact_history |-> <<>>,
     current_stable_state |-> "None",
     state_change_time |-> 0]

add_sample(sm, band_powers, signal_quality, brain_state, has_artifact) ==
    [sm EXCEPT
        !.band_power_history = DequeAppend(@, band_powers, sm.window_size),
        !.signal_quality_history = DequeAppend(@, signal_quality, sm.window_size),
        !.brain_state_history = DequeAppend(@, brain_state, sm.window_size),
        !.has_artifact_history = DequeAppend(@, has_artifact, sm.window_size)]

StateCount(h, st) == Cardinality({i \in 1..Len(h) : h[i] = st})

\* max(state_counts.items(), key=count): the first key, in order of first
\* occurrence in the history, among those with the largest count
MostCommon(h) ==
    LET best == CHOOSE i \in 1..Len(h) :
                    /\ \A j \in 1..Len(h) : StateCount(h, h[j]) <= StateCount(h, h[i])
                    /\ \A j \in 1..(i - 1) : StateCount(h, h[j]) < StateCount(h, h[i])
    IN h[best]

\* SmootherCandidate with the two tests of lines 87-90 in the other order
SmootherCandidateLowFirst(sm) ==
    LET h == sm.brain_state_history
        new_state == MostCommon(h)
        count == StateCount(h, new_state)
    IN IF 10 * count < 7 * Len(h)
       THEN IF 10 * StateCount(h, "low_confidence") > 3 * Len(h)
                THEN "low_confidence"
            ELSE IF 10 * StateCount(h, "artifact_detected") > 3 * Len(h)
                THEN "artifact_detected"
            ELSE IF sm.current_stable_state # "None" THEN "keep"
            ELSE new_state
       ELSE new_state

\* The candidate of get_smoothed_brain_state (lines 71-93): "keep" stands for the
\* early return of the locked label.
SmootherCandidate(sm) ==
    LET h == sm.brain_state_history
        new_state == MostCommon(h)
        count == StateCount(h, new_state)
    IN IF 10 * count < 7 * Len(h)
       THEN IF 10 * StateCount(h, "artifact_detected") > 3 * Len(h)
                THEN "artifact_detected"
            ELSE IF 10 * StateCount(h, "low_confidence") > 3 * Len(h)
                THEN "low_confidence"
            ELSE IF sm.current_stable_state # "None" THEN "keep"
            ELSE new_state
       ELSE new_state

\* LockAllows without the minimum-duration test
LockAllowsAlways(sm, c, current_time) == TRUE

\* The hysteresis of get_smoothed_brain_state (lines 95-117) on candidate c
LockAllows(sm, c, current_time) ==
    current_time - sm.state_change_time >= min_state_duration

\* get_smoothed_brain_state in which a change refused by the minimum duration
\* restarts the duration
get_smoothed_brain_state_restarting(sm, current_time) ==
    IF Len(sm.brain_state_history) = 0 THEN [sm |-> sm, label |-> "unknown"]
    ELSE LET c == SmootherCandidate(sm) IN
         IF c = "keep" THEN [sm |-> sm, label |-> sm.current_stable_state]
         ELSE IF sm.current_stable_state = "None"
             THEN [sm |-> [sm EXCEPT !.current_stable_state = c,
                                     !.state_change_time = current_time],
                   label |-> c]
         ELSE IF c # sm.current_stable_state /\ LockAllows(sm, c, current_time)
             THEN [sm |-> [sm EXCEPT !.current_stable_state = c,
                                     !.state_change_time = current_time],
                   label |-> c]
         ELSE IF c # sm.current_stable_state
             THEN [sm |-> [sm EXCEPT !.state_change_time = current_time],
                   label |-> sm.current_stable_state]
         ELSE [sm |-> sm, label |-> sm.current_stable_state]

\* get_smoothed_brain_state: the object after the call and the label returned
get_smoothed_brain_state(sm, current_time) ==
    IF Len(sm.brain_state_history) = 0 THEN [sm |-> sm, label |-> "unknown"]
    ELSE LET c == SmootherCandidate(sm) IN
         IF c = "keep" THEN [sm |-> sm, label |-> sm.current_stable_state]
         ELSE IF sm.current_stable_state = "None"
             THEN [sm |-> [sm EXCEPT !.current_stable_state = c,
                                     !.state_change_time = current_time],
                   label |-> c]
         ELSE IF c # sm.current_stable_state /\ LockAllows(sm, c, current_time)
             THEN [sm |-> [sm EXCEPT !.current_stable_state = c,
                                     !.state_change_time = current_time],
                   label |-> c]
         ELSE [sm |-> sm, label |-> sm.current_stable_state]

\* per-band sums over the window; with Len as denominator they are
\* get_smoothed_band_powers
RECURSIVE BandSum(_, _)
BandSum(h, band) == IF h = <<>> THEN 0 ELSE Head(h)[band] + BandSum(Tail(h), band)

SmoothedBandSums(sm) ==
    [band \in Bands |-> BandSum(sm.band_power_history, band)]

\* get_artifact_ratio, as the number of flagged samples (the ratio is this over Len)
ArtifactCount(sm) ==
    Cardinality({i \in 1..Len(sm.has_artifact_history) : sm.has_artifact_history[i]})

\* is_stable: at least 3 samples and std(quality) < 10, i.e. n*sum(q^2) - sum(q)^2 < 100*n^2
RECURSIVE SeqSumSq(_)
SeqSumSq(s) == IF s = <<>> THEN 0 ELSE Head(s) * Head(s) + SeqSumSq(Tail(s))

is_stable(sm) ==
    LET q == sm.signal_quality_history
        n == Len(q)
    IN n >= 3 /\ n * SeqSumSq(q) - SeqSum(q) * SeqSum(q) < 100 * n * n


(***************************************************************************)
(* process_sensor_data (main.py): the synchronous parts of the callback.   *)
(***************************************************************************)
\* a pulled sample: the amplitude of each of the four channels
CleanSample == [ch \in Channels |-> 10]

\* tick_info before the first tick of a session epoch.  label_before, candidate,
\* elapsed and lock_changed_at follow the locked label of the current StateSmoother
\* object from outside it; fits counts the calls of fit_ica in the epoch;
\* at_samples is samples_received at the tick and gap the samples pushed since
\* the tick before it (-1 when there was none, or the count has saturated).
\* classified says that lines 401-405 called get_brain_state, on band_powers and
\* is_meditation.  stage, n_samples, band_power and computed belong to
\* calls of calculate_band_powers and get_brain_state made outside a tick.
\* data_quality is the data_quality feature of the tick, in tenths, and window
\* the copy of the four deques the tick took at line 281.  hold is the raw
\* label that every later add_sample is given, once the labels have settled
\* ("None" while they vary).
NoTick == [ran |-> FALSE, bad_channels |-> {}, spectral_src |-> {},
           raw_brain_state |-> "None", locked_label |-> "None",
           label_before |-> "None", candidate |-> "None",
           elapsed |-> 0, lock_changed_at |-> 0,
           fit_called |-> FALSE, fit_ok |-> FALSE, appended |-> FALSE,
           fitted_before |-> FALSE, fits |-> 0,
           at_samples |-> 0, gap |-> -1,
           classified |-> FALSE, band_powers |-> ZeroPowers,
           is_meditation |-> FALSE,
           stage |-> "none", n_samples |-> 0, band_power |-> ZeroPowers,
           computed |-> FALSE,
           data_quality |-> -1, window |-> <<>>, hold |-> "None"]

NoOutbound == [type |-> "none", brain_state |-> "None", has_artifact |-> FALSE,
               bad_channels |-> {}, fitted |-> FALSE, progress |-> 0]

\* the sum of the absolute amplitudes of a window [n_samples, n_channels]
RECURSIVE AbsSum(_)
AbsSum(window) ==
    IF window = <<>> THEN 0
    ELSE Abs(Head(window)[0]) + Abs(Head(window)[1]) + Abs(Head(window)[2])
             + Abs(Head(window)[3]) + AbsSum(Tail(window))

\* ArtifactDetector.extract_data_quality (artifact_detector.py 531-558), in
\* tenths: 1.0 less 0.5 when the largest amplitude is above 500, less 0.3 when
\* the mean amplitude is below 5, less 0.2 when detect_em_interference reports
\* 60 Hz interference (an input here), and never below 0
extract_data_quality(eeg_data, em_interference) ==
    LET max_amp_over_500 ==
            \E i \in 1..Len(eeg_data) : \E ch \in Channels : Abs(eeg_data[i][ch]) > 500
        mean_amp_under_5 == AbsSum(eeg_data) < 5 * 4 * Len(eeg_data)
        quality == 10 - (IF max_amp_over_500 THEN 5 ELSE 0)
                      - (IF mean_amp_under_5 THEN 3 ELSE 0)
                      - (IF em_interference THEN 2 ELSE 0)
    IN IF quality < 0 THEN 0 ELSE quality

\* detect_bad_channels with the comparison >= for >
detect_bad_channels_inclusive(window, threshold) ==
    {ch \in Channels : \E i \in 1..Len(window) : Abs(window[i][ch]) >= threshold}

\* ArtifactDetector.detect_bad_channels on a window [n_samples, n_channels]
detect_bad_channels(window, threshold) ==
    {ch \in Channels : \E i \in 1..Len(window) : Abs(window[i][ch]) > threshold}

\* lines 236-240: every sample of the chunk goes to the four deques
RECURSIVE PushAll(_, _)
\* list(eeg_buffer[ch]) (lines 281, 308): the deque of channel ch holds the
\* column ch of every sample that has one (lines 237-240)
RECURSIVE ChannelList(_, _)
ChannelList(buf, ch) ==
    IF buf = <<>> THEN <<>>
    ELSE (IF ch \in DOMAIN Head(buf) THEN <<Head(buf)[ch]>> ELSE <<>>)
             \o ChannelList(Tail(buf), ch)

PushAll(buf, chunk) ==
    IF chunk = <<>> THEN buf
    ELSE PushAll(DequeAppend(buf, Head(chunk), BufferSize), Tail(chunk))

\* the samples of the windows that fill the calibration buffer, were they
\* disjoint (30 x 256 in the code); the count of received samples stops there
SamplesCap == IcaWindows * BufferSize

\* lines 215-240: HRV buffer and EEG buffers are fed
PushSamples(eeg_samples, has_ppg) ==
    /\ eeg_buffer' = PushAll(eeg_buffer, eeg_samples)
    /\ ppg_buffer' = IF has_ppg THEN Min(ppg_buffer + 1, PpgBufferLen) ELSE ppg_buffer
    /\ samples_received' = Min(samples_received + Len(eeg_samples), SamplesCap)

(***************************************************************************)
(* HRVCalculator (hrv_calculator.py).  Peak times are in milliseconds; the *)
(* filtering and scipy's find_peaks are not computed: found is the list of *)
(* peak timestamps they give on the buffer.                                *)
(***************************************************************************)
\* __init__ (lines 22-29); found, heart_rate, valid, cached and partial record
\* the last call of get_current_metrics, full_valid and full_rate what
\* calculate_hrv returned inside it; cache_src says which assignment wrote
\* last_valid_heart_rate: "full" (line 235), "partial" (line 271), or none yet
NewHrv == [peak_times |-> <<>>, last_valid_heart_rate |-> 0,
           called |-> FALSE, found |-> <<>>, heart_rate |-> 0, valid |-> FALSE,
           cached |-> FALSE, partial |-> FALSE,
           full_valid |-> FALSE, full_rate |-> 0, cache_src |-> "none"]

\* detect_peaks (lines 64-162): with too little data it returns [] and leaves
\* peak_times as it was
detect_peaks(h, n, found) ==
    IF n < PpgMin THEN [h EXCEPT !.found = <<>>]
    ELSE [h EXCEPT !.peak_times = found, !.found = found]

\* every RR interval kept, whatever its length
RECURSIVE ValidRRAll(_)
ValidRRAll(peaks) ==
    IF Len(peaks) < 2 THEN <<>>
    ELSE <<peaks[2] - peaks[1]>> \o ValidRRAll(Tail(peaks))

\* lines 190-199: the RR intervals of 400..2000 ms
RECURSIVE ValidRR(_)
ValidRR(peaks) ==
    IF Len(peaks) < 2 THEN <<>>
    ELSE LET rr_ms == peaks[2] - peaks[1] IN
         (IF 400 <= rr_ms /\ rr_ms <= 2000 THEN <<rr_ms>> ELSE <<>>) \o ValidRR(Tail(peaks))

\* calculate_hrv (lines 164-244) after detect_peaks; the rate is 60000 / mean(rr),
\* rounded down
calculate_hrv(h) ==
    LET rr_intervals == ValidRR(h.found) IN
    IF Len(h.found) < 3 \/ Len(rr_intervals) < 2
    THEN [h EXCEPT !.heart_rate = 0, !.valid = FALSE,
                   !.full_valid = FALSE, !.full_rate = 0]
    ELSE LET heart_rate == (60000 * Len(rr_intervals)) \div SeqSum(rr_intervals) IN
         [h EXCEPT !.heart_rate = heart_rate, !.valid = TRUE,
                   !.full_valid = TRUE, !.full_rate = heart_rate,
                   !.last_valid_heart_rate = heart_rate, !.cache_src = "full"]

\* get_current_metrics without the range tests of lines 265 and 267
get_current_metrics_unchecked(h0, n, found) ==
    LET h == [calculate_hrv(detect_peaks(h0, n, found)) EXCEPT
                  !.called = TRUE, !.cached = FALSE, !.partial = FALSE]
        k == Len(h.peak_times)
    IN IF ~h.valid /\ h.last_valid_heart_rate > 0
       THEN [h EXCEPT !.heart_rate = h.last_valid_heart_rate, !.valid = TRUE,
                      !.cached = TRUE]
       ELSE IF ~h.valid /\ k >= 2
       THEN LET rr_ms == h.peak_times[k] - h.peak_times[k - 1]
                heart_rate == IF rr_ms > 0 THEN 60000 \div rr_ms ELSE 0
            IN [h EXCEPT !.heart_rate = heart_rate, !.valid = TRUE,
                         !.partial = TRUE,
                         !.last_valid_heart_rate = heart_rate,
                         !.cache_src = "partial"]
       ELSE h

\* get_current_metrics (lines 246-273): n samples are in ppg_buffer
get_current_metrics(h0, n, found) ==
    LET h == [calculate_hrv(detect_peaks(h0, n, found)) EXCEPT
                  !.called = TRUE, !.cached = FALSE, !.partial = FALSE]
        k == Len(h.peak_times)
    IN IF ~h.valid /\ h.last_valid_heart_rate > 0
       THEN [h EXCEPT !.heart_rate = h.last_valid_heart_rate, !.valid = TRUE,
                      !.cached = TRUE]
       ELSE IF ~h.valid /\ k >= 2
       THEN LET rr_ms == h.peak_times[k] - h.peak_times[k - 1]
                heart_rate == IF rr_ms > 0 THEN 60000 \div rr_ms ELSE 0
            IN IF 400 <= rr_ms /\ rr_ms <= 2000 /\ 30 <= heart_rate /\ heart_rate <= 150
               THEN [h EXCEPT !.heart_rate = heart_rate, !.valid = TRUE,
                              !.partial = TRUE,
                              !.last_valid_heart_rate = heart_rate,
                              !.cache_src = "partial"]
               ELSE h
       ELSE h

\* lines 310-335: ICA calibration.  MNEProcessor.fit_ica (mne_processor.py 74-93)
\* catches every exception of the fit itself, so the except branch of main.py is
\* never entered through it; fit_ok is whether ICA.fit succeeded.
IcaProgress(n) == Min(100, (n * 100) \div IcaWindows)

\* IcaStep without the test of ica_fitted: every tick appends, and fits when full
IcaStepRefits(fit_ok) ==
    IF ica_fit_buffer + 1 >= IcaWindows
    THEN [ica_fitted |-> TRUE, ica_fit_buffer |-> 0, ica_fit_progress |-> 100,
          mne_ica_fitted |-> (mne_ica_fitted \/ fit_ok), mne_ica |-> fit_ok,
          appended |-> TRUE, fit_called |-> TRUE]
    ELSE [ica_fitted |-> ica_fitted, ica_fit_buffer |-> ica_fit_buffer + 1,
          ica_fit_progress |-> IcaProgress(ica_fit_buffer + 1),
          mne_ica_fitted |-> mne_ica_fitted, mne_ica |-> mne_ica,
          appended |-> TRUE, fit_called |-> FALSE]

\* IcaStep when a failing fit reaches the except branch of main.py with its
\* line 335 left out: the buffer is cleared and the progress stays
IcaStepFailureKeepsProgress(fit_ok) ==
    LET cur == [ica_fitted |-> ica_fitted, ica_fit_buffer |-> ica_fit_buffer,
                ica_fit_progress |-> ica_fit_progress,
                mne_ica_fitted |-> mne_ica_fitted, mne_ica |-> mne_ica,
                appended |-> FALSE, fit_called |-> FALSE]
    IN IF ~ica_fitted
       THEN IF ica_fit_buffer + 1 >= IcaWindows
            THEN [ica_fitted |-> fit_ok, ica_fit_buffer |-> 0, ica_fit_progress |-> 100,
                  mne_ica_fitted |-> (mne_ica_fitted \/ fit_ok), mne_ica |-> fit_ok,
                  appended |-> TRUE, fit_called |-> TRUE]
            ELSE [cur EXCEPT !.ica_fit_buffer = ica_fit_buffer + 1,
                             !.ica_fit_progress = IcaProgress(ica_fit_buffer + 1),
                             !.appended = TRUE]
       ELSE cur

\* the ICA state after the calibration block of one tick
IcaStep(fit_ok) ==
    LET cur == [ica_fitted |-> ica_fitted, ica_fit_buffer |-> ica_fit_buffer,
                ica_fit_progress |-> ica_fit_progress,
                mne_ica_fitted |-> mne_ica_fitted, mne_ica |-> mne_ica,
                appended |-> FALSE, fit_called |-> FALSE]
    IN IF ~ica_fitted
       THEN IF ica_fit_buffer + 1 >= IcaWindows
            THEN [ica_fitted |-> TRUE, ica_fit_buffer |-> 0, ica_fit_progress |-> 100,
                  mne_ica_fitted |-> (mne_ica_fitted \/ fit_ok), mne_ica |-> fit_ok,
                  appended |-> TRUE, fit_called |-> TRUE]
            ELSE [cur EXCEPT !.ica_fit_buffer = ica_fit_buffer + 1,
                             !.ica_fit_progress = IcaProgress(ica_fit_buffer + 1),
                             !.appended = TRUE]
       ELSE cur

\* lines 298-308: the channels averaged into avg_signal
GoodChannels(bad_channels) ==
    IF Channels \ bad_channels = {} THEN Channels ELSE Channels \ bad_channels

\* lines 337-374: the channels whose samples make the signal handed to
\* signal_processor.process_window.  The cleaned data of mne_processor is
\* [4, n_samples] and is averaged over all its rows; avg_signal is used only by
\* the fallback of the cleaned-data block, and is the four-channel average
\* when the MNE processing itself has failed.
SpectralSource(bad_channels, tin) ==
    IF tin.mne_raises THEN Channels
    ELSE IF tin.cleaned_raises THEN GoodChannels(bad_channels)
    ELSE Channels

\* the band powers of the tick: after an MNE failure the "cleaned" average is a
\* single value, shorter than one second, and calculate_band_powers returns zeros
TickBandPowers(tin) ==
    IF tin.mne_raises /\ ~tin.cleaned_raises THEN ZeroPowers ELSE tin.band_powers

\* line 377 with the fallbacks of lines 345-349 and 371-374
SignalQualityScore(tin) ==
    IF tin.cleaned_raises THEN 30
    ELSE IF tin.mne_raises THEN 50
    ELSE tin.confidence

\* mne_result['has_artifact'] (mne_processor.py 239 and the fallbacks)
MneHasArtifact(tin) ==
    IF tin.mne_raises \/ tin.cleaned_raises THEN TRUE
    ELSE tin.mne_bad \/ tin.confidence < 50

\* lines 390-396
TickHasArtifact(bad_channels, tin) ==
    \/ MneHasArtifact(tin)
    \/ SignalQualityScore(tin) < 50
    \/ tin.detector_artifact
    \/ bad_channels # {}

\* lines 398-408
RawBrainState(bad_channels, tin) ==
    IF tin.is_meditation THEN get_brain_state(TickBandPowers(tin), 1, TRUE)
    ELSE IF ~TickHasArtifact(bad_channels, tin) /\ SignalQualityScore(tin) > 50
        THEN get_brain_state(TickBandPowers(tin), 1, FALSE)
    ELSE IF TickHasArtifact(bad_channels, tin) THEN "artifact_detected"
    ELSE "low_confidence"

\* lines 425-435: the label put in the outbound record, given the smoother after
\* add_sample and the label its hysteresis returned
OutboundBrainState(sm, smoothed_brain_state, is_meditation) ==
    LET n == Len(sm.brain_state_history)
        recalculated == get_brain_state(SmoothedBandSums(sm), n, is_meditation)
    IN IF /\ is_stable(sm)
          /\ 10 * ArtifactCount(sm) < 3 * n
          /\ SeqSum(sm.signal_quality_history) > 60 * n
          /\ smoothed_brain_state \notin
                {"artifact_detected", "low_confidence", "unknown", "mixed"}
          /\ recalculated # "mixed"
       THEN recalculated
       ELSE smoothed_brain_state

\* the has_artifact of the result when line 438 is left out: the tick's own flag
OutboundHasArtifactOwn(sm, has_artifact) == has_artifact

\* line 438: has_artifact = artifact_ratio > 0.5, over the smoother window that
\* holds the current tick; the flag computed at lines 390-396 is overwritten
OutboundHasArtifact(sm, has_artifact) ==
    2 * ArtifactCount(sm) > Len(sm.has_artifact_history)

\* the posture globals of main.py (lines 83-85), TalkingDetector.__init__
\* (talking_detector.py 46-59) and ArtifactDetector.__init__ (artifact_detector.py
\* 43-55): histories as their lengths, saturating where the code stops comparing.
\* talk_flipped says that the last call of update changed is_talking,
\* talk_flip_time is the timestamp of the last change (-1: none yet) and
\* talk_flip_gap the time between the last two (-1: fewer than two; it stops
\* counting at one second).  posture_shown is the status of the
\* posture_interpretation of the last tick; posture_lock_time is the time of the
\* last assignment to posture_current_status that changed it (-1: none yet) and
\* posture_lock_gap the time between the last two (-1: fewer than two; it stops
\* counting at POSTURE_MIN_DURATION).
NewMotion == [posture_history |-> 0,
              posture_current_status |-> "None",
              posture_change_time |-> 0,
              gyro_buffer |-> 0,
              detection_history |-> <<>>,
              is_talking |-> FALSE,
              state_lock_time |-> 0,
              baseline_samples |-> 0,
              talk_flipped |-> FALSE,
              talk_flip_time |-> -1,
              talk_flip_gap |-> -1,
              posture_shown |-> "None",
              posture_lock_time |-> -1,
              posture_lock_gap |-> -1]

\* main.py 476-541: the posture history and the posture lock.  tin.acc: an
\* accelerometer reading of magnitude > 0.5 came with the chunk; tin.posture:
\* the status interpret_posture gives when it has sensor data
\* the fields that follow the posture lock from outside, after a tick that
\* took the lock from mo to m and put the status shown in its interpretation
PostureSeen(mo, m, shown, current_time) ==
    IF m.posture_current_status # mo.posture_current_status
    THEN [m EXCEPT !.posture_shown = shown,
                   !.posture_lock_time = current_time,
                   !.posture_lock_gap =
                       IF mo.posture_lock_time = -1 THEN -1
                       ELSE Min(current_time - mo.posture_lock_time,
                                POSTURE_MIN_DURATION)]
    ELSE [m EXCEPT !.posture_shown = shown]

\* the posture block without the test of the time since the last change
PostureStepUnlocked(mo, tin, current_time) ==
    LET n == IF tin.acc THEN Min(mo.posture_history + 1, PostureMin)
             ELSE mo.posture_history
        raw == IF tin.acc \/ tin.gyro THEN tin.posture ELSE "No posture data"
        new_status == IF raw = "No posture data" /\ n > 0 THEN "Analyzing..." ELSE raw
        m1 == [mo EXCEPT !.posture_history = n]
    IN IF mo.posture_current_status = "None"
       THEN IF n >= PostureMin
            THEN PostureSeen(mo, [m1 EXCEPT !.posture_current_status = new_status,
                                            !.posture_change_time = current_time],
                             new_status, current_time)
            ELSE PostureSeen(mo, m1, "Analyzing...", current_time)
       ELSE IF new_status # mo.posture_current_status
            THEN PostureSeen(mo, [m1 EXCEPT !.posture_current_status = new_status,
                                            !.posture_change_time = current_time],
                             new_status, current_time)
            ELSE PostureSeen(mo, m1, new_status, current_time)

PostureStep(mo, tin, current_time) ==
    LET n == IF tin.acc THEN Min(mo.posture_history + 1, PostureMin)
             ELSE mo.posture_history
        raw == IF tin.acc \/ tin.gyro THEN tin.posture ELSE "No posture data"
        new_status == IF raw = "No posture data" /\ n > 0 THEN "Analyzing..." ELSE raw
        m1 == [mo EXCEPT !.posture_history = n]
    IN IF mo.posture_current_status = "None"
       THEN IF n >= PostureMin
            THEN PostureSeen(mo, [m1 EXCEPT !.posture_current_status = new_status,
                                            !.posture_change_time = current_time],
                             new_status, current_time)
            ELSE PostureSeen(mo, m1, "Analyzing...", current_time)
       ELSE IF new_status # mo.posture_current_status
            THEN IF current_time - mo.posture_change_time >= POSTURE_MIN_DURATION
                 THEN PostureSeen(mo, [m1 EXCEPT !.posture_current_status = new_status,
                                                 !.posture_change_time = current_time],
                                  new_status, current_time)
                 ELSE PostureSeen(mo, m1, mo.posture_current_status, current_time)
            ELSE PostureSeen(mo, m1, new_status, current_time)

\* what a call of update that changes is_talking at timestamp leaves in the
\* three fields that follow the changes from outside
TalkFlipAt(mo, timestamp, per_second) ==
    [mo EXCEPT !.talk_flipped = TRUE,
               !.talk_flip_time = timestamp,
               !.talk_flip_gap = IF mo.talk_flip_time = -1 THEN -1
                                 ELSE Min(timestamp - mo.talk_flip_time, per_second)]

\* update without the state lock: is_talking follows the vote at once
TalkingUpdateAtUnlocked(mo, tin, timestamp, per_second) ==
    LET g == IF tin.gyro THEN Min(mo.gyro_buffer + 1, GyroMin) ELSE mo.gyro_buffer
        m1 == [mo EXCEPT !.gyro_buffer = g, !.talk_flipped = FALSE]
        h == DequeAppend(mo.detection_history, tin.talking, TalkWindow)
        trues == Cardinality({i \in 1..Len(h) : h[i]})
        smoothed_talking == 10 * trues > 6 * Len(h)
        m2 == [m1 EXCEPT !.detection_history = h]
    IN IF g < GyroMin THEN m1
       ELSE IF smoothed_talking # mo.is_talking
            THEN TalkFlipAt([m2 EXCEPT !.is_talking = smoothed_talking,
                                       !.state_lock_time = timestamp],
                            timestamp, per_second)
            ELSE m2

\* TalkingDetector.update (talking_detector.py 68-137).  tin.gyro: a gyroscope
\* reading came with the call; tin.talking: what _detect_talking returns.
\* timestamp counts 1/per_second of a second; MIN_STATE_DURATION is 0.5 s.
TalkingUpdateAt(mo, tin, timestamp, per_second) ==
    LET g == IF tin.gyro THEN Min(mo.gyro_buffer + 1, GyroMin) ELSE mo.gyro_buffer
        m1 == [mo EXCEPT !.gyro_buffer = g, !.talk_flipped = FALSE]
        h == DequeAppend(mo.detection_history, tin.talking, TalkWindow)
        trues == Cardinality({i \in 1..Len(h) : h[i]})
        smoothed_talking == 10 * trues > 6 * Len(h)
        m2 == [m1 EXCEPT !.detection_history = h]
    IN IF g < GyroMin THEN m1
       ELSE IF smoothed_talking # mo.is_talking
                /\ 2 * (timestamp - mo.state_lock_time) >= per_second
            THEN TalkFlipAt([m2 EXCEPT !.is_talking = smoothed_talking,
                                       !.state_lock_time = timestamp],
                            timestamp, per_second)
            ELSE m2

\* the call of main.py 558, where the clock counts whole seconds
TalkingUpdate(mo, tin, timestamp) == TalkingUpdateAt(mo, tin, timestamp, 1)

\* ArtifactDetector.update_eeg (artifact_detector.py 57-78), called by detect_all
\* with the one-second window: the baseline grows until it is full
UpdateBaseline(mo) ==
    IF mo.baseline_samples < BaselineWindows
    THEN [mo EXCEPT !.baseline_samples = @ + 1]
    ELSE mo

\* main.py 383, 476-541 and 558 in the order of the tick
MotionStep(mo, tin, t) == TalkingUpdate(PostureStep(UpdateBaseline(mo), tin, t), tin, t)

\* lines 275-699 without the final broadcast: one processing tick over the
\* window snapshot
TickBody(window, tin) ==
    LET bad_channels == detect_bad_channels(window, BadChannelThreshold)
        raw == RawBrainState(bad_channels, tin)
        sm1 == add_sample(state_smoother, TickBandPowers(tin), SignalQualityScore(tin),
                          raw, TickHasArtifact(bad_channels, tin))
        r == get_smoothed_brain_state(sm1, now)
        ica == IcaStep(tin.fit_ok)
        changed == r.sm.current_stable_state # state_smoother.current_stable_state
        classified == raw \notin {"artifact_detected", "low_confidence"}
        data_quality == extract_data_quality(window, tin.em_interference)
    IN /\ ica_fitted' = ica.ica_fitted
       /\ ica_fit_buffer' = ica.ica_fit_buffer
       /\ ica_fit_progress' = ica.ica_fit_progress
       /\ mne_ica_fitted' = ica.mne_ica_fitted
       /\ mne_ica' = ica.mne_ica
       /\ state_smoother' = r.sm
       /\ motion' = MotionStep(motion, tin, now)
       /\ hrv' = get_current_metrics(hrv, ppg_buffer', tin.peaks)
       /\ outbound' = [type |-> "band_powers",
                       brain_state |-> OutboundBrainState(sm1, r.label, tin.is_meditation),
                       has_artifact |->
                           OutboundHasArtifact(sm1, TickHasArtifact(bad_channels, tin)),
                       bad_channels |-> bad_channels,
                       fitted |-> ica.ica_fitted,
                       progress |-> ica.ica_fit_progress]
       /\ tick_info' = [ran |-> TRUE,
                        bad_channels |-> bad_channels,
                        spectral_src |-> SpectralSource(bad_channels, tin),
                        raw_brain_state |-> raw,
                        locked_label |-> r.sm.current_stable_state,
                        label_before |-> state_smoother.current_stable_state,
                        candidate |-> SmootherCandidate(sm1),
                        elapsed |-> now - tick_info.lock_changed_at,
                        lock_changed_at |->
                            IF changed THEN now ELSE tick_info.lock_changed_at,
                        fit_called |-> ica.fit_called,
                        fit_ok |-> ica.fit_called /\ tin.fit_ok,
                        appended |-> ica.appended,
                        fitted_before |-> ica_fitted,
                        at_samples |-> samples_received',
                        gap |-> IF tick_info.ran /\ samples_received' < SamplesCap
                                THEN samples_received' - tick_info.at_samples
                                ELSE -1,
                        fits |-> tick_info.fits + (IF ica.fit_called THEN 1 ELSE 0),
                        classified |-> classified,
                        band_powers |-> TickBandPowers(tin),
                        is_meditation |-> tin.is_meditation,
                        stage |-> "none", n_samples |-> 0, band_power |-> ZeroPowers,
                        computed |-> FALSE,
                        data_quality |-> data_quality,
                        window |-> window,
                        hold |-> "None"]


(***************************************************************************)
(* MuseStreamer (muse_stream.py).  A step of stream_data runs from one     *)
(* await to the next, as the event loop runs it; the operators below take  *)
(* the values reached so far in the step as a record a.                    *)
(***************************************************************************)
Frame == [is_streaming |-> is_streaming,
          eeg_inlet |-> eeg_inlet,
          opt_inlets |-> opt_inlets,
          reconnect_attempts |-> reconnect_attempts,
          consecutive_errors |-> consecutive_errors,
          no_data_count |-> no_data_count,
          time_since_data |-> time_since_data,
          failed_reconnects |-> failed_reconnects,
          lost_by |-> lost_by,
          older |-> older]

\* the step ends at position p with the values of a
SetStream(a, p) ==
    /\ pc' = p
    /\ is_streaming' = a.is_streaming
    /\ eeg_inlet' = a.eeg_inlet
    /\ opt_inlets' = a.opt_inlets
    /\ reconnect_attempts' = a.reconnect_attempts
    /\ consecutive_errors' = a.consecutive_errors
    /\ no_data_count' = a.no_data_count
    /\ time_since_data' = a.time_since_data
    /\ failed_reconnects' = a.failed_reconnects
    /\ lost_by' = a.lost_by
    /\ older' = a.older
    /\ UNCHANGED <<auto_reconnect, max_reconnect_attempts, link, opt_streams>>

Quiet == UNCHANGED <<sessionVars, now, bcastVars>>

\* MuseStreamer.disconnect (lines 91-108) when every close_stream returns
disconnect(a) == [a EXCEPT !.is_streaming = FALSE, !.eeg_inlet = FALSE,
                           !.opt_inlets = [o \in Optional |-> FALSE]]

\* MuseStreamer.connect (lines 30-89) when the EEG stream is resolved: the EEG
\* inlet is opened, and the inlet of every optional stream that resolves; the
\* attribute of one that does not resolve is not assigned
connect(a) == [a EXCEPT !.eeg_inlet = TRUE,
                        !.opt_inlets = [o \in Optional |->
                                           IF o \in opt_streams THEN TRUE ELSE @[o]]]

\* lines 285-288: the outer loop is left and stream_data returns
Finish(a) == SetStream(a, "done")

\* lines 270-283: the handler of the outer try
FatalHandler(a) ==
    IF auto_reconnect /\ a.reconnect_attempts < max_reconnect_attempts
    THEN SetStream([a EXCEPT !.reconnect_attempts = @ + 1], "recover_wait")
    ELSE Finish([a EXCEPT !.is_streaming = FALSE])

\* AfterInner with the attempt bound off by one (<= for <)
AfterInnerOffByOne(a, cause) ==
    LET b == [a EXCEPT !.lost_by = cause] IN
    IF b.is_streaming /\ auto_reconnect /\ b.reconnect_attempts <= max_reconnect_attempts
    THEN \/ SetStream(disconnect([b EXCEPT !.reconnect_attempts = @ + 1]), "reconnect_wait")
         \/ FatalHandler([b EXCEPT !.reconnect_attempts = @ + 1, !.is_streaming = FALSE])
    ELSE Finish(b)

\* lines 244-268 up to the first await: the inner loop has been left
AfterInner(a, cause) ==
    LET b == [a EXCEPT !.lost_by = cause] IN
    IF b.is_streaming /\ auto_reconnect /\ b.reconnect_attempts < max_reconnect_attempts
    THEN \/ SetStream(disconnect([b EXCEPT !.reconnect_attempts = @ + 1]), "reconnect_wait")
         \/ \* close_stream raises inside disconnect: is_streaming is already False
            FatalHandler([b EXCEPT !.reconnect_attempts = @ + 1, !.is_streaming = FALSE])
    ELSE Finish(b)

\* lines 200-218: the pull returned no EEG chunk
NoData(a) ==
    LET n == Min(a.no_data_count + 1, MaxNoDataIterations)
        b == [a EXCEPT !.no_data_count = n]
    IN IF n >= MaxNoDataIterations /\ a.time_since_data > StallTimeout
       THEN IF auto_reconnect
            THEN AfterInner(b, "stall")
            ELSE AfterInner([b EXCEPT !.is_streaming = FALSE], "stall")
       ELSE SetStream(b, "sleep")

\* ChunkError without the count: the first error leaves the inner loop
ChunkErrorLeavesAtOnce(a) ==
    LET e == Min(a.consecutive_errors + 1, MaxConsecutiveErrors)
        b == [a EXCEPT !.consecutive_errors = e]
    IN IF auto_reconnect /\ a.reconnect_attempts < max_reconnect_attempts
       THEN AfterInner(b, "errors")
       ELSE AfterInner([b EXCEPT !.is_streaming = FALSE], "errors")

\* lines 223-242: the body of the inner loop raised
ChunkError(a) ==
    LET e == Min(a.consecutive_errors + 1, MaxConsecutiveErrors)
        b == [a EXCEPT !.consecutive_errors = e]
    IN IF e >= MaxConsecutiveErrors
       THEN IF auto_reconnect /\ a.reconnect_attempts < max_reconnect_attempts
            THEN AfterInner(b, "errors")
            ELSE AfterInner([b EXCEPT !.is_streaming = FALSE], "errors")
       ELSE SetStream(b, "sleep")

(***************************************************************************)
(* ConnectionManager.broadcast (main.py 148-185) and the two places where  *)
(* process_sensor_data awaits it.  The for-loop over active_connections    *)
(* reads the live list through an index; each send_json is an await, at    *)
(* which the callback, and stream_data that awaits the callback, are       *)
(* suspended.  m carries the manager's list and bc_last as reached so far  *)
(* in the step.                                                            *)
(***************************************************************************)
ListSet(s) == {s[i] : i \in 1..Len(s)}

NoSends == [c \in Subscribers |-> 0]

\* lines 182-185: the failed connections are removed if still registered
RECURSIVE Prune(_, _)
Prune(conns, disconnected) ==
    IF disconnected = <<>> THEN conns
    ELSE Prune(IF InList(conns, Head(disconnected))
               THEN ListRemove(conns, Head(disconnected)) ELSE conns,
               Tail(disconnected))

\* no broadcast is running
SetBroadcastIdle(m) ==
    /\ active_connections' = m.active_connections
    /\ bc_last' = m.bc_last
    /\ cb_pc' = "idle"
    /\ bc_index' = 0
    /\ bc_sending' = 0
    /\ bc_disconnected' = <<>>
    /\ bc_sent' = NoSends
    /\ bc_present' = {}

\* lines 174-177: broadcast is entered with a non-empty list and is suspended in
\* the send to the first connection
BeginBroadcast(m, kind) ==
    /\ active_connections' = m.active_connections
    /\ bc_last' = m.bc_last
    /\ cb_pc' = kind
    /\ bc_index' = 1
    /\ bc_sending' = m.active_connections[1]
    /\ bc_disconnected' = <<>>
    /\ bc_sent' = [NoSends EXCEPT ![m.active_connections[1]] = 1]
    /\ bc_present' = ListSet(m.active_connections)

\* muse_stream.py 191-192: the callback has returned; the loop goes to its sleep
CallbackReturns(a) == SetStream([a EXCEPT !.consecutive_errors = 0], "sleep")

\* muse_stream.py 153-186: an optional sensor gives a reading only through an
\* open inlet of a stream that is there
Readable(a, o) == a.opt_inlets[o] /\ o \in opt_streams

Pulled(a, tin) == [tin EXCEPT !.acc = @ /\ Readable(a, "acc"),
                              !.gyro = @ /\ Readable(a, "gyro")]

\* main.py 257: the HRV metrics are computed for the eeg_data message
PollHrv(In) == \E tin \in In.tins : hrv' = get_current_metrics(hrv, ppg_buffer', tin.peaks)

\* TickStage with the copy of line 281 taken before the chunk of this call was
\* appended (lines 236-240)
TickStageEarlyCopy(a, In, buf, m, polled) ==
    IF Len(buf) >= BufferSize
    THEN \E tin \in In.tins :
            /\ TickBody(eeg_buffer, Pulled(a, tin))
            /\ IF m.active_connections # <<>>
               THEN BeginBroadcast(m, "band_powers") /\ SetStream(a, "callback")
               ELSE SetBroadcastIdle(m) /\ CallbackReturns(a)
    ELSE /\ UNCHANGED tickVars
         /\ IF polled THEN PollHrv(In) ELSE UNCHANGED hrv
         /\ SetBroadcastIdle(m)
         /\ CallbackReturns(a)

\* main.py 275-712: the rest of the callback once the eeg_data broadcast is over.
\* polled: line 257 ran earlier in this step (the tick's own call at line 452
\* sees the same buffer and gives the same result)
TickStage(a, In, buf, m, polled) ==
    IF Len(buf) >= BufferSize
    THEN \E tin \in In.tins :
            /\ TickBody(buf, Pulled(a, tin))
            /\ IF m.active_connections # <<>>
               THEN BeginBroadcast(m, "band_powers") /\ SetStream(a, "callback")
               ELSE SetBroadcastIdle(m) /\ CallbackReturns(a)
    ELSE /\ UNCHANGED tickVars
         /\ IF polled THEN PollHrv(In) ELSE UNCHANGED hrv
         /\ SetBroadcastIdle(m)
         /\ CallbackReturns(a)

\* muse_stream.py 140-191 and main.py 191-272: a chunk is pulled and the callback
\* runs up to its first suspension, or to its end
PullChunk(a, In) ==
    /\ a.eeg_inlet /\ link = "up"
    /\ UNCHANGED now
    /\ \E eeg_samples \in In.chunks, has_ppg \in In.ppg, eeg_send \in In.eeg_send :
         LET a1 == [a EXCEPT !.no_data_count = 0, !.time_since_data = 0]
             m == [active_connections |-> active_connections, bc_last |-> bc_last]
         IN /\ PushSamples(eeg_samples, has_ppg /\ Readable(a, "ppg"))
            /\ IF eeg_send /\ active_connections # <<>>
               THEN /\ BeginBroadcast(m, "eeg_data")
                    /\ SetStream(a1, "callback")
                    /\ UNCHANGED tickVars
                    /\ PollHrv(In)
               ELSE TickStage(a1, In, PushAll(eeg_buffer, eeg_samples), m, eeg_send)

\* main.py 174-185: the awaited send_json is over (it returned, or raised); the
\* for-loop goes on with the live list, and after its end the callback goes on
SendOver(ok, In) ==
    /\ pc = "callback"
    /\ bc_sending # 0
    /\ UNCHANGED <<bufferVars, now>>
    /\ LET disconnected == IF ok THEN bc_disconnected
                           ELSE Append(bc_disconnected, bc_sending)
       IN IF bc_index + 1 <= Len(active_connections)
          THEN /\ bc_index' = bc_index + 1
               /\ bc_sending' = active_connections[bc_index + 1]
               /\ bc_sent' = [bc_sent EXCEPT ![active_connections[bc_index + 1]] = @ + 1]
               /\ bc_disconnected' = disconnected
               /\ UNCHANGED <<active_connections, cb_pc, bc_present, bc_last,
                              streamVars, tickVars, hrv>>
          ELSE LET m == [active_connections |-> Prune(active_connections, disconnected),
                         bc_last |-> [kind |-> cb_pc, present |-> bc_present,
                                      sent |-> bc_sent]]
               IN IF cb_pc = "eeg_data"
                  THEN TickStage(Frame, In, eeg_buffer, m, FALSE)
                  ELSE /\ UNCHANGED <<tickVars, hrv>>
                       /\ SetBroadcastIdle(m)
                       /\ CallbackReturns(Frame)

SendReturns(In) == SendOver(TRUE, In)

SendRaises(In) == SendOver(FALSE, In)

\* websocket_endpoint (main.py 867-873) and ConnectionManager.connect: a client
\* is accepted and registered
WsConnect ==
    \E c \in Subscribers :
        /\ ~InList(active_connections, c)
        /\ active_connections' = Append(active_connections, c)
        /\ UNCHANGED <<cb_pc, bc_index, bc_sending, bc_disconnected, bc_sent,
                       bc_present, bc_last, streamVars, sessionVars, now>>

\* websocket_endpoint (main.py 892-894) and ConnectionManager.disconnect: the
\* handler of a client that went away removes it from the registry
WsDisconnect ==
    \E c \in Subscribers :
        /\ InList(active_connections, c)
        /\ active_connections' = ListRemove(active_connections, c)
        /\ bc_present' = bc_present \ {c}
        /\ UNCHANGED <<cb_pc, bc_index, bc_sending, bc_disconnected, bc_sent,
                       bc_last, streamVars, sessionVars, now>>

\* lines 137-221: one iteration of the inner loop, from its head to the next
\* await.  In gives the sets the inputs are drawn from, and whether empty pulls
\* and raising pulls are among them.
RunInner(a, In) ==
    IF ~a.is_streaming
    THEN AfterInner(a, "stopped") /\ Quiet
    ELSE \/ PullChunk(a, In)
         \/ /\ In.faults
            /\ a.eeg_inlet
            /\ NoData(a)
            /\ Quiet
         \/ /\ In.faults
            /\ ChunkError(a)
            /\ Quiet

\* lines 128-134: the head of the outer loop
RunOuter(a, In) ==
    IF a.is_streaming /\ a.reconnect_attempts <= max_reconnect_attempts
    THEN RunInner([a EXCEPT !.consecutive_errors = 0, !.no_data_count = 0,
                            !.time_since_data = 0], In)
    ELSE Finish(a) /\ Quiet

\* lines 120-126: stream_data is entered
StartStream(In) ==
    /\ pc = "start"
    /\ IF eeg_inlet
       THEN RunOuter([Frame EXCEPT !.is_streaming = TRUE, !.reconnect_attempts = 0,
                                   !.failed_reconnects = 0], In)
       ELSE \* RuntimeError("Not connected to Muse"): the task ends
            Finish(Frame) /\ Quiet

\* the sleep of the inner loop (lines 217, 221, 242) is over
ResumeInner(In) ==
    /\ pc = "sleep"
    /\ RunInner(Frame, In)

\* lines 253-265: the 2 s wait is over and connect() is called; it finds the
\* EEG stream exactly when the link is up
ReconnectSucceeds(In) ==
    /\ pc = "reconnect_wait"
    /\ link = "up"
    /\ RunOuter([connect(Frame) EXCEPT !.reconnect_attempts = 0,
                              !.failed_reconnects = 0], In)

ReconnectFails(In) ==
    /\ pc = "reconnect_wait"
    /\ link = "down"
    /\ LET a == [Frame EXCEPT !.failed_reconnects = @ + 1] IN
       IF a.reconnect_attempts >= max_reconnect_attempts
       THEN RunOuter([a EXCEPT !.is_streaming = FALSE], In)
       ELSE SetStream(a, "retry_wait") /\ Quiet

\* the 5 s wait after a failed reconnect (line 265) is over
RetryResume(In) ==
    /\ pc = "retry_wait"
    /\ RunOuter(Frame, In)

\* the 1 s wait of the fatal handler (line 278) is over: continue
RecoverResume(In) ==
    /\ pc = "recover_wait"
    /\ RunOuter(Frame, In)

\* the loop clock advances
LoopTimePasses ==
    /\ pc \in {"sleep", "reconnect_wait", "retry_wait", "recover_wait"}
    /\ time_since_data <= StallTimeout
    /\ time_since_data' = time_since_data + 1
    /\ UNCHANGED <<is_streaming, eeg_inlet, opt_inlets, opt_streams, pc, auto_reconnect,
                   max_reconnect_attempts,
                   reconnect_attempts, consecutive_errors, no_data_count, link,
                   failed_reconnects, lost_by, older>>
    /\ Quiet

\* the environment: the LSL stream disappears, or is back
LinkDrops ==
    /\ link = "up"
    /\ pc # "done"
    /\ link' = "down"
    /\ UNCHANGED <<is_streaming, eeg_inlet, opt_inlets, opt_streams, pc, auto_reconnect,
                   max_reconnect_attempts,
                   reconnect_attempts, consecutive_errors, no_data_count, time_since_data,
                   failed_reconnects, lost_by, older>>
    /\ Quiet

LinkRestores ==
    /\ link = "down"
    /\ pc # "done"
    /\ link' = "up"
    /\ UNCHANGED <<is_streaming, eeg_inlet, opt_inlets, opt_streams, pc, auto_reconnect,
                   max_reconnect_attempts,
                   reconnect_attempts, consecutive_errors, no_data_count, time_since_data,
                   failed_reconnects, lost_by, older>>
    /\ Quiet

\* time.time() advances
ClockAdvances ==
    /\ now + ClockStep <= MaxTime
    /\ now' = now + ClockStep
    /\ UNCHANGED <<streamVars, sessionVars, bcastVars>>

(***************************************************************************)
(* The REST handlers of main.py that start and end a session.              *)
(***************************************************************************)
\* connect_muse (main.py 736-795) when no send is pending.  A loop that is still
\* running is stopped by muse_streamer.disconnect() and leaves during the
\* handler's 0.5 s wait; when connect() succeeds the session state is reset and
\* a new stream_data task is created.
ConnectMuse ==
    /\ pc \in {"sleep", "done"}
    /\ LET a == IF is_streaming THEN disconnect(Frame) ELSE Frame IN
       IF link = "up"
       THEN /\ SetStream(connect(a), "start")
            /\ ica_fitted' = FALSE
            /\ ica_fit_buffer' = 0
            /\ ica_fit_progress' = 0
            /\ eeg_buffer' = <<>>
            /\ state_smoother' = NewStateSmoother(WindowSize)
            /\ ppg_buffer' = 0
            /\ samples_received' = 0
            /\ hrv' = NewHrv
            /\ tick_info' = NoTick
            /\ motion' = [motion EXCEPT !.posture_history = 0]
            /\ UNCHANGED <<mne_ica_fitted, mne_ica, outbound, now, bcastVars>>
       ELSE /\ SetStream(a, IF is_streaming THEN "done" ELSE pc)
            /\ Quiet

\* disconnect_muse (main.py 842-864)
DisconnectMuse ==
    /\ pc \in {"start", "sleep", "done"}
    /\ SetStream(disconnect(Frame), pc)
    /\ ica_fitted' = FALSE
    /\ ica_fit_buffer' = 0
    /\ ica_fit_progress' = 0
    /\ eeg_buffer' = <<>>
    /\ state_smoother' = NewStateSmoother(WindowSize)
    /\ tick_info' = NoTick
    /\ samples_received' = 0
    /\ UNCHANGED <<ppg_buffer, hrv, mne_ica_fitted, mne_ica, outbound, motion, now,
                   bcastVars>>

\* connect_muse (main.py 741-789) is called while the stream_data task is
\* suspended in a send of its band_powers broadcast for longer than the handler's
\* 0.5 s wait, or in the 2 s wait before its reconnect (is_streaming is already
\* false there, so the handler neither disconnects nor waits).  The task is not
\* cancelled: it stays suspended as older, and a new task is created.
ConnectMuseOver ==
    /\ pc \in {"callback", "reconnect_wait"}
    /\ pc = "callback" => cb_pc = "band_powers"
    /\ older.pc \in {"none", "done"}
    /\ LET a == IF is_streaming THEN disconnect(Frame) ELSE Frame IN
       IF link = "up"
       THEN /\ SetStream([connect(a) EXCEPT
                                   !.older = [pc |-> pc, pulled |-> FALSE]], "start")
            /\ ica_fitted' = FALSE
            /\ ica_fit_buffer' = 0
            /\ ica_fit_progress' = 0
            /\ eeg_buffer' = <<>>
            /\ state_smoother' = NewStateSmoother(WindowSize)
            /\ ppg_buffer' = 0
            /\ samples_received' = 0
            /\ hrv' = NewHrv
            /\ tick_info' = NoTick
            /\ motion' = [motion EXCEPT !.posture_history = 0]
            /\ UNCHANGED <<mne_ica_fitted, mne_ica, outbound, now, bcastVars>>
       ELSE /\ SetStream(a, pc)
            /\ Quiet

\* main.py 174-185 in the callback of the older task: its pending send is over;
\* after the last one the callback returns (muse_stream.py 191-192) and the older
\* loop is in its 0.01 s sleep (line 242)
OlderSendOver ==
    /\ older.pc = "callback"
    /\ bc_sending # 0
    /\ UNCHANGED <<sessionVars, now>>
    /\ \E ok \in BOOLEAN :
         LET disconnected == IF ok THEN bc_disconnected
                             ELSE Append(bc_disconnected, bc_sending)
         IN IF bc_index + 1 <= Len(active_connections)
            THEN /\ bc_index' = bc_index + 1
                 /\ bc_sending' = active_connections[bc_index + 1]
                 /\ bc_sent' = [bc_sent EXCEPT ![active_connections[bc_index + 1]] = @ + 1]
                 /\ bc_disconnected' = disconnected
                 /\ UNCHANGED <<active_connections, cb_pc, bc_present, bc_last,
                                streamVars>>
            ELSE /\ SetBroadcastIdle(
                        [active_connections |-> Prune(active_connections, disconnected),
                         bc_last |-> [kind |-> cb_pc, present |-> bc_present,
                                      sent |-> bc_sent]])
                 /\ SetStream([Frame EXCEPT !.older.pc = "sleep"], pc)

\* muse_stream.py 137-242 in the older task: the head of its inner loop.  With
\* is_streaming and an inlet it pulls a chunk and runs process_sensor_data up to
\* the first suspension (the eeg_data broadcast being throttled, main.py 236-272);
\* otherwise the loop is left.  a carries what the older task has set so far.
OlderInner(a, In) ==
    IF ~(a.is_streaming /\ a.eeg_inlet)
    THEN SetStream([a EXCEPT !.older.pc = "done"], pc) /\ Quiet
    ELSE /\ link = "up"
         /\ cb_pc = "idle"
         /\ UNCHANGED now
         /\ \E eeg_samples \in In.chunks, has_ppg \in In.ppg :
              LET buf == PushAll(eeg_buffer, eeg_samples)
                  m == [active_connections |-> active_connections, bc_last |-> bc_last]
                  suspended == Len(buf) >= BufferSize /\ active_connections # <<>>
              IN /\ PushSamples(eeg_samples, has_ppg /\ Readable(a, "ppg"))
                 /\ IF Len(buf) >= BufferSize
                    THEN \E tin \in In.tins : TickBody(buf, Pulled(a, tin))
                    ELSE UNCHANGED <<tickVars, hrv>>
                 /\ IF suspended
                    THEN BeginBroadcast(m, "band_powers")
                    ELSE SetBroadcastIdle(m)
                 /\ SetStream([a EXCEPT !.older = [pc |-> IF suspended THEN "callback"
                                                         ELSE "sleep",
                                                  pulled |-> TRUE]], pc)

\* the 0.01 s sleep of the older loop is over
OlderIterates(In) ==
    /\ older.pc = "sleep"
    /\ OlderInner(Frame, In)

\* muse_stream.py 253-259 in the older task: its 2 s wait is over and connect()
\* finds the EEG stream; its own reconnect_attempts is 0 again, so the outer loop
\* (line 128) goes on exactly when is_streaming is true
OlderReconnects(In) ==
    /\ older.pc = "reconnect_wait"
    /\ link = "up"
    /\ LET a == connect(Frame) IN
       IF a.is_streaming
       THEN OlderInner(a, In)
       ELSE SetStream([a EXCEPT !.older.pc = "done"], pc) /\ Quiet

(***************************************************************************)
(* Initial states.                                                         *)
(***************************************************************************)
\* the module-level state of main.py after import (lines 63-109)
SessionInit ==
    /\ eeg_buffer = <<>>
    /\ ppg_buffer = 0
    /\ samples_received = 0
    /\ hrv = NewHrv
    /\ ica_fitted = FALSE
    /\ ica_fit_buffer = 0
    /\ ica_fit_progress = 0
    /\ mne_ica_fitted = FALSE
    /\ mne_ica = FALSE
    /\ state_smoother = NewStateSmoother(WindowSize)
    /\ now = 0
    /\ outbound = NoOutbound
    /\ tick_info = NoTick
    /\ motion = NewMotion

\* ConnectionManager() and no broadcast running
BroadcastInit ==
    /\ active_connections = <<>>
    /\ cb_pc = "idle"
    /\ bc_index = 0
    /\ bc_sending = 0
    /\ bc_disconnected = <<>>
    /\ bc_sent = [c \in Subscribers |-> 0]
    /\ bc_present = {}
    /\ bc_last = [kind |-> "none", present |-> {}, sent |-> [c \in Subscribers |-> 0]]

\* no superseded task
NoOlder == [pc |-> "none", pulled |-> FALSE]

\* MuseStreamer after a successful connect(), stream_data about to be called
StreamInit ==
    /\ is_streaming = FALSE
    /\ eeg_inlet = TRUE
    /\ opt_streams = Optional
    /\ opt_inlets = [o \in Optional |-> TRUE]
    /\ pc = "start"
    /\ auto_reconnect \in BOOLEAN
    /\ max_reconnect_attempts \in 0..MaxReconnectArg
    /\ reconnect_attempts = 0
    /\ consecutive_errors = 0
    /\ no_data_count = 0
    /\ time_since_data = 0
    /\ link = "up"
    /\ failed_reconnects = 0
    /\ lost_by = "none"
    /\ older = NoOlder

(***************************************************************************)
(* SpecStream: one call of stream_data with process_sensor_data as its     *)
(* callback, an unreliable link, and no subscriber.                        *)
(***************************************************************************)
\* the results of one tick's numerical steps when nothing fails: no motion
\* readings, no pulse peaks, quality 70, no artifact, beta-dominant band powers,
\* a fit that succeeds
PlainTick == [acc |-> FALSE, gyro |-> FALSE, posture |-> "Good", talking |-> FALSE,
              peaks |-> <<>>,
              mne_raises |-> FALSE, cleaned_raises |-> FALSE, confidence |-> 70,
              mne_bad |-> FALSE, detector_artifact |-> FALSE, is_meditation |-> FALSE,
              em_interference |-> FALSE,
              fit_ok |-> TRUE,
              band_powers |-> [delta |-> 10, theta |-> 10, alpha |-> 20,
                               beta |-> 40, gamma |-> 20]]

StreamInputs == [chunks |-> {<<CleanSample>>}, ppg |-> {TRUE}, tins |-> {PlainTick},
                 eeg_send |-> {FALSE}, faults |-> TRUE]

StreamStep ==
    \/ StartStream(StreamInputs)
    \/ ResumeInner(StreamInputs)
    \/ ReconnectSucceeds(StreamInputs)
    \/ ReconnectFails(StreamInputs)
    \/ RetryResume(StreamInputs)
    \/ RecoverResume(StreamInputs)

InitStream == StreamInit /\ SessionInit /\ BroadcastInit

NextStream == StreamStep \/ LoopTimePasses \/ LinkDrops \/ LinkRestores

SpecStream == InitStream /\ [][NextStream]_vars

\* the event loop runs every coroutine that is ready, and time passes; the
\* fairness is asked only of the steps taken while the link is down, which is
\* all the termination of stream_data rests on
DeadLinkStep == link = "down" /\ StreamStep

SpecStreamFair ==
    InitStream /\ [][NextStream]_vars /\ WF_vars(DeadLinkStep) /\ WF_vars(LoopTimePasses)


(***************************************************************************)
(* SpecSmoother: a healthy stream whose ticks feed the StateSmoother with  *)
(* changing band powers and artifact flags, while the wall clock advances. *)
(***************************************************************************)
\* a stream_data task has been created by connect_muse with the default arguments
SessionStart ==
    /\ StreamInit
    /\ auto_reconnect
    /\ max_reconnect_attempts = MaxReconnectArg
    /\ SessionInit
    /\ BroadcastInit

\* band powers with beta dominant ("focused") and with alpha dominant ("relaxed")
BetaPowers == [delta |-> 10, theta |-> 10, alpha |-> 20, beta |-> 40, gamma |-> 20]

AlphaPowers == [delta |-> 20, theta |-> 20, alpha |-> 40, beta |-> 10, gamma |-> 10]

SmootherInputs ==
    [chunks |-> {<<CleanSample>>}, ppg |-> {FALSE},
     tins |-> {PlainTick,
               [PlainTick EXCEPT !.band_powers = AlphaPowers],
               [PlainTick EXCEPT !.detector_artifact = TRUE]},
     eeg_send |-> {FALSE}, faults |-> FALSE]

NextSmoother ==
    \/ StartStream(SmootherInputs)
    \/ ResumeInner(SmootherInputs)
    \/ ClockAdvances

SpecSmoother == SessionStart /\ [][NextSmoother]_vars

(***************************************************************************)
(* SpecCalib: a healthy stream with noisy channels, failing MNE steps and  *)
(* failing ICA fits, and sessions started and ended through the handlers.  *)
(***************************************************************************)
\* a sample whose channel 1 (AF7) is above the bad-channel threshold
NoisySample == [ch \in Channels |-> IF ch = 1 THEN BadChannelThreshold + 100 ELSE 10]

CalibInputs ==
    [chunks |-> {<<CleanSample>>, <<NoisySample>>}, ppg |-> {FALSE},
     tins |-> {[PlainTick EXCEPT !.fit_ok = f, !.mne_raises = r, !.cleaned_raises = c] :
                   f \in BOOLEAN, r \in BOOLEAN, c \in BOOLEAN},
     eeg_send |-> {FALSE}, faults |-> FALSE]

NextCalib ==
    \/ StartStream(CalibInputs)
    \/ ResumeInner(CalibInputs)
    \/ ConnectMuse
    \/ DisconnectMuse

SpecCalib == SessionStart /\ [][NextCalib]_vars

(***************************************************************************)
(* SpecBroadcast: a healthy stream whose callback broadcasts to WebSocket  *)
(* subscribers that come and go and whose sends may fail.                  *)
(***************************************************************************)
BroadcastInputs ==
    [chunks |-> {<<CleanSample>>}, ppg |-> {FALSE}, tins |-> {PlainTick},
     eeg_send |-> BOOLEAN, faults |-> FALSE]

NextBroadcast ==
    \/ StartStream(BroadcastInputs)
    \/ ResumeInner(BroadcastInputs)
    \/ SendReturns(BroadcastInputs)
    \/ SendRaises(BroadcastInputs)
    \/ WsConnect
    \/ WsDisconnect

SpecBroadcast == SessionStart /\ [][NextBroadcast]_vars

(***************************************************************************)
(* SpecSessions: /api/connect and /api/disconnect arrive at any await of   *)
(* the stream_data task, also while it is suspended in a send or in its    *)
(* reconnect wait; the link stays up, pulls may return nothing or raise.   *)
(***************************************************************************)
SessionsInputs == [chunks |-> {<<CleanSample>>}, ppg |-> {FALSE}, tins |-> {PlainTick},
                   eeg_send |-> {FALSE}, faults |-> TRUE]

\* the steps of the newest task; the one broadcast in flight belongs to the
\* older task while that one is suspended in it
NewestStep ==
    /\ older.pc # "callback"
    /\ \/ StartStream(SessionsInputs)
       \/ ResumeInner(SessionsInputs)
       \/ ReconnectSucceeds(SessionsInputs)
       \/ SendReturns(SessionsInputs)

NextSessions ==
    \/ NewestStep
    \/ WsConnect
    \/ ConnectMuse
    \/ DisconnectMuse
    \/ ConnectMuseOver
    \/ OlderSendOver
    \/ OlderIterates(SessionsInputs)
    \/ OlderReconnects(SessionsInputs)

SpecSessions == SessionStart /\ [][NextSessions]_vars

(***************************************************************************)
(* SpecMotion: a healthy stream with accelerometer and gyroscope readings, *)
(* the wall clock advancing, and /api/connect and /api/disconnect between  *)
(* the loop's iterations.                                                  *)
(***************************************************************************)
MotionInputs ==
    [chunks |-> {<<CleanSample>>}, ppg |-> {FALSE},
     tins |-> {[PlainTick EXCEPT !.acc = TRUE, !.gyro = TRUE, !.posture = p, !.talking = t] :
                  p \in {"Good", "Forward tilt"}, t \in BOOLEAN},
     eeg_send |-> {FALSE}, faults |-> FALSE]

NextMotion ==
    \/ StartStream(MotionInputs)
    \/ ResumeInner(MotionInputs)
    \/ ClockAdvances
    \/ ConnectMuse
    \/ DisconnectMuse

SpecMotion == SessionStart /\ [][NextMotion]_vars

(***************************************************************************)
(* SpecPulse: a healthy stream with PPG samples, peak detections of every  *)
(* kind, and /api/connect and /api/disconnect between the iterations.      *)
(***************************************************************************)
\* the elements of a set of numbers in increasing order
RECURSIVE SortedSeq(_)
SortedSeq(S) ==
    IF S = {} THEN <<>>
    ELSE LET lo == CHOOSE x \in S : \A y \in S : x <= y
         IN <<lo>> \o SortedSeq(S \ {lo})

\* times (ms) at which find_peaks may report a peak: the gaps range from 300 ms
\* (below the valid RR range) over 700..2000 ms (inside) to 4500 ms (above)
PeakGrid == {0, 300, 1000, 2000, 4500}

PeakLists == {SortedSeq(S) : S \in {T \in SUBSET PeakGrid : Cardinality(T) <= MaxPeaks}}

PulseInputs ==
    [chunks |-> {<<CleanSample>>}, ppg |-> {TRUE},
     tins |-> {[PlainTick EXCEPT !.peaks = pk] : pk \in PeakLists},
     eeg_send |-> {FALSE}, faults |-> FALSE]

NextPulse ==
    \/ StartStream(PulseInputs)
    \/ ResumeInner(PulseInputs)
    \/ ConnectMuse
    \/ DisconnectMuse

SpecPulse == SessionStart /\ [][NextPulse]_vars

(***************************************************************************)
(* SpecContact: a healthy stream whose samples have amplitudes below, at   *)
(* and above the bad-channel threshold, on one channel or on all four.     *)
(***************************************************************************)
\* TP9 just below the threshold, AF7 and AF8 exactly at it (one of them
\* negative), TP10 just above it
EdgeSample == [ch \in Channels |->
                 CASE ch = 0 -> BadChannelThreshold - 1
                   [] ch = 1 -> BadChannelThreshold
                   [] ch = 2 -> 0 - BadChannelThreshold
                   [] ch = 3 -> 0 - (BadChannelThreshold + 1)]

\* every electrode has lost contact
AllBadSample == [ch \in Channels |-> BadChannelThreshold + 100]

ContactInputs ==
    [chunks |-> {<<CleanSample>>, <<NoisySample>>, <<EdgeSample>>, <<AllBadSample>>},
     ppg |-> {FALSE}, tins |-> {PlainTick}, eeg_send |-> {FALSE, TRUE}, faults |-> FALSE]

NextContact ==
    \/ StartStream(ContactInputs)
    \/ ResumeInner(ContactInputs)

SpecContact == SessionStart /\ [][NextContact]_vars

(***************************************************************************)
(* SpecConnect: the stream of SpecStream on an unreliable link, optional   *)
(* streams that come and go, and /api/connect and /api/disconnect between  *)
(* the loop's iterations and after its end.                                *)
(***************************************************************************)
\* muselsl starts or stops publishing PPG, ACC or GYRO
OptionalStreamsChange ==
    /\ \E S \in SUBSET Optional : S # opt_streams /\ opt_streams' = S
    /\ UNCHANGED <<is_streaming, eeg_inlet, opt_inlets, pc, auto_reconnect,
                   max_reconnect_attempts, reconnect_attempts, consecutive_errors,
                   no_data_count, time_since_data, link, failed_reconnects, lost_by,
                   older, sessionVars, now, bcastVars>>

NextConnect ==
    \/ StreamStep
    \/ LinkDrops
    \/ LinkRestores
    \/ OptionalStreamsChange
    \/ ConnectMuse
    \/ DisconnectMuse

SpecConnect == SessionStart /\ [][NextConnect]_vars


(***************************************************************************)
(* SpecLabels: a healthy stream whose ticks classify changing band powers  *)
(* in both contexts while the wall clock advances.                         *)
(***************************************************************************)
LabelInputs ==
    [chunks |-> {<<CleanSample>>}, ppg |-> {FALSE},
     tins |-> {PlainTick,
               [PlainTick EXCEPT !.band_powers = AlphaPowers],
               [PlainTick EXCEPT !.band_powers = AlphaPowers, !.is_meditation = TRUE]},
     eeg_send |-> {FALSE}, faults |-> FALSE]

NextLabels ==
    \/ StartStream(LabelInputs)
    \/ ResumeInner(LabelInputs)
    \/ ClockAdvances

SpecLabels == SessionStart /\ [][NextLabels]_vars


(***************************************************************************)
(* SpecSpectrum: calculate_band_powers and get_brain_state called on their *)
(* own.  The initial states hold the arguments: either a window (its       *)
(* length and the five band integrals) for calculate_band_powers, whose    *)
(* result then goes to get_brain_state as in process_sensor_data, or band  *)
(* powers in whole percents for get_brain_state.                           *)
(***************************************************************************)
\* window lengths: empty, one sample short of a second, one second, two seconds
WindowLengths == {0, SAMPLE_RATE - 1, SAMPLE_RATE, 2 * SAMPLE_RATE}

\* percentages on both sides of every threshold of get_brain_state
PowerGrid ==
    [delta : {0, 29, 30, 31, 40, 41},
     theta : {0, 15, 16, 20, 21, 25, 26},
     alpha : {0, 20, 21, 30, 31},
     beta  : {0, 19, 20, 21, 25, 26, 30, 31, 46, 47},
     gamma : {0, 10, 11, 15, 16}]

WindowCalls ==
    {[NoTick EXCEPT !.stage = "window", !.n_samples = n, !.band_power = p,
                    !.is_meditation = m] :
        n \in WindowLengths, p \in [Bands -> 0..MaxBandPower], m \in BOOLEAN}

DirectCalls ==
    {[NoTick EXCEPT !.stage = "powers", !.band_powers = bp, !.is_meditation = m] :
        bp \in PowerGrid \cup {<<>>}, m \in BOOLEAN}

SpectrumInit ==
    /\ StreamInit
    /\ auto_reconnect
    /\ max_reconnect_attempts = MaxReconnectArg
    /\ BroadcastInit
    /\ eeg_buffer = <<>>
    /\ ppg_buffer = 0
    /\ samples_received = 0
    /\ hrv = NewHrv
    /\ ica_fitted = FALSE
    /\ ica_fit_buffer = 0
    /\ ica_fit_progress = 0
    /\ mne_ica_fitted = FALSE
    /\ mne_ica = FALSE
    /\ state_smoother = NewStateSmoother(WindowSize)
    /\ now = 0
    /\ outbound = NoOutbound
    /\ motion = NewMotion
    /\ tick_info \in WindowCalls \cup DirectCalls

\* signal_processor.calculate_band_powers(data)
CalculateBandPowers ==
    /\ tick_info.stage = "window"
    /\ tick_info' = [tick_info EXCEPT
                        !.stage = "powers",
                        !.computed = TRUE,
                        !.band_powers =
                            calculate_band_powers(tick_info.n_samples,
                                                  tick_info.band_power)]
    /\ UNCHANGED <<streamVars, bufferVars, hrv, icaVars, state_smoother, outbound,
                   motion, now, bcastVars>>

\* get_brain_state(band_powers, is_meditation)
GetBrainState ==
    /\ tick_info.stage = "powers"
    /\ tick_info' = [tick_info EXCEPT
                        !.stage = "label",
                        !.classified = TRUE,
                        !.raw_brain_state =
                            get_brain_state(tick_info.band_powers,
                                            IF tick_info.computed THEN PercentUnit ELSE 1,
                                            tick_info.is_meditation)]
    /\ UNCHANGED <<streamVars, bufferVars, hrv, icaVars, state_smoother, outbound,
                   motion, now, bcastVars>>

NextSpectrum == CalculateBandPowers \/ GetBrainState

SpecSpectrum == SpectrumInit /\ [][NextSpectrum]_vars


(***************************************************************************)
(* SpecHrv: an HRVCalculator on its own.  update_ppg fills the buffer and  *)
(* get_current_metrics is called, as process_sensor_data calls it, with    *)
(* whatever peaks find_peaks reports on the buffer at that moment.         *)
(***************************************************************************)
\* times (ms) at which find_peaks may report a peak: the gaps range from 300 ms
\* (below the valid RR range) over 400..2000 ms (inside, both ends reached) to
\* 4300 ms (above), and 700, 1500, 2300 are 800 ms apart
BeatGrid == {0, 300, 700, 1500, 2300, 4300}

BeatLists == {SortedSeq(S) : S \in {T \in SUBSET BeatGrid : Cardinality(T) <= MaxPeaks}}

\* hrv_calculator.update_ppg(ppg_data, timestamp)
UpdatePpg ==
    /\ ppg_buffer < PpgBufferLen
    /\ ppg_buffer' = ppg_buffer + 1
    /\ UNCHANGED <<streamVars, eeg_buffer, samples_received, hrv, tickVars, now,
                   bcastVars>>

\* hrv_calculator.get_current_metrics()
GetCurrentMetrics ==
    /\ \E found \in BeatLists : hrv' = get_current_metrics(hrv, ppg_buffer, found)
    /\ UNCHANGED <<streamVars, bufferVars, tickVars, now, bcastVars>>

NextHrv == UpdatePpg \/ GetCurrentMetrics

SpecHrv == SessionStart /\ [][NextHrv]_vars


(***************************************************************************)
(* SpecTalking: a TalkingDetector on its own, update called at any moment  *)
(* with timestamps that never decrease.  In this specification the clock   *)
(* now counts 1/TalkTicks of a second.                                     *)
(***************************************************************************)
TalkingTimePasses ==
    /\ now < MaxTalkTime
    /\ now' = now + 1
    /\ UNCHANGED <<streamVars, sessionVars, bcastVars>>

\* talking_detector.update(gyro_data, acc_data, timestamp)
TalkingDetectorUpdate ==
    /\ \E gyro \in BOOLEAN, talking \in BOOLEAN :
          motion' = TalkingUpdateAt(motion,
                                    [PlainTick EXCEPT !.gyro = gyro, !.talking = talking],
                                    now, TalkTicks)
    /\ UNCHANGED <<streamVars, bufferVars, hrv, icaVars, state_smoother, outbound,
                   tick_info, now, bcastVars>>

NextTalking == TalkingTimePasses \/ TalkingDetectorUpdate

SpecTalking == SessionStart /\ [][NextTalking]_vars


(***************************************************************************)
(* SpecWindow: a healthy stream whose ticks yield focused, relaxed,        *)
(* artifact_detected and low_confidence raw labels in any order.           *)
(***************************************************************************)
WindowInputs ==
    [chunks |-> {<<CleanSample>>}, ppg |-> {FALSE},
     tins |-> {PlainTick,
               [PlainTick EXCEPT !.band_powers = AlphaPowers],
               [PlainTick EXCEPT !.detector_artifact = TRUE],
               [PlainTick EXCEPT !.confidence = 50]},
     eeg_send |-> {FALSE}, faults |-> FALSE]

NextWindow ==
    \/ StartStream(WindowInputs)
    \/ ResumeInner(WindowInputs)
    \/ ClockAdvances

SpecWindow == SessionStart /\ [][NextWindow]_vars


(***************************************************************************)
(* SpecTear: clean and noisy chunks, a single /ws client, and /api/connect  *)
(* and /api/disconnect at any await of the stream_data task, also while it *)
(* is suspended in a send.                                                 *)
(***************************************************************************)
TearInputs == [chunks |-> {<<CleanSample>>, <<NoisySample>>}, ppg |-> {FALSE},
               tins |-> {PlainTick}, eeg_send |-> {FALSE, TRUE}, faults |-> FALSE]

NextTear ==
    \/ /\ older.pc # "callback"
       /\ \/ StartStream(TearInputs)
          \/ ResumeInner(TearInputs)
          \/ SendReturns(TearInputs)
    \/ WsConnect /\ active_connections' = <<1>>
    \/ ConnectMuse
    \/ DisconnectMuse
    \/ ConnectMuseOver
    \/ OlderSendOver
    \/ OlderIterates(TearInputs)

SpecTear == SessionStart /\ [][NextTear]_vars


(***************************************************************************)
(* SpecProgress: a healthy stream with clean and noisy chunks whose ICA    *)
(* fits succeed or fail, and sessions started and ended through the        *)
(* handlers.                                                               *)
(***************************************************************************)
ProgressInputs ==
    [chunks |-> {<<CleanSample>>, <<NoisySample>>}, ppg |-> {FALSE},
     tins |-> {[PlainTick EXCEPT !.fit_ok = f] : f \in BOOLEAN},
     eeg_send |-> {FALSE}, faults |-> FALSE]

NextProgress ==
    \/ StartStream(ProgressInputs)
    \/ ResumeInner(ProgressInputs)
    \/ ConnectMuse
    \/ DisconnectMuse

SpecProgress == SessionStart /\ [][NextProgress]_vars


(***************************************************************************)
(* SpecHold: the StateSmoother alone, fed as lines 412-422 of main.py feed *)
(* it: add_sample, then get_smoothed_brain_state.  The raw labels vary     *)
(* until they settle on one label for good.  time.time() has no bound:     *)
(* once the clock of the model is at MaxTime a step of time moves the      *)
(* origin instead, and an age of the lock beyond min_state_duration is     *)
(* kept at min_state_duration (the code only compares the age with it).    *)
(***************************************************************************)
HoldLabels == {"focused", "relaxed", "artifact_detected"}

\* from now on every raw label is L
LabelsSettle ==
    /\ tick_info.hold = "None"
    /\ \E L \in HoldLabels : tick_info' = [tick_info EXCEPT !.hold = L]
    /\ UNCHANGED <<streamVars, bufferVars, hrv, icaVars, state_smoother, outbound,
                   motion, now, bcastVars>>

\* main.py 412-422 on the smoother
SmootherTick ==
    /\ \E L \in HoldLabels :
          /\ tick_info.hold \in {"None", L}
          /\ \E sm1 \in {add_sample(state_smoother, BetaPowers, 70, L,
                                     L = "artifact_detected")} :
             \E r \in {get_smoothed_brain_state(sm1, now)} :
                /\ state_smoother' = r.sm
                /\ tick_info' = [tick_info EXCEPT
                                    !.ran = TRUE,
                                    !.raw_brain_state = L,
                                    !.label_before = state_smoother.current_stable_state,
                                    !.locked_label = r.label]
    /\ UNCHANGED <<streamVars, bufferVars, hrv, icaVars, outbound, motion, now,
                   bcastVars>>

\* time.time() advances by ClockStep
HoldTimePasses ==
    /\ IF now + ClockStep <= MaxTime
       THEN now' = now + ClockStep /\ UNCHANGED state_smoother
       ELSE /\ UNCHANGED now
            /\ state_smoother' =
                  [state_smoother EXCEPT !.state_change_time =
                      IF @ - ClockStep < now - min_state_duration
                      THEN Min(@, now - min_state_duration)
                      ELSE @ - ClockStep]
    /\ UNCHANGED <<streamVars, bufferVars, hrv, icaVars, outbound, tick_info, motion,
                   bcastVars>>

NextHold == LabelsSettle \/ SmootherTick \/ HoldTimePasses

SpecHold == SessionStart /\ [][NextHold]_vars

\* the acquisition loop goes on calling the callback, and time passes
SpecHoldFair ==
    SessionStart /\ [][NextHold]_vars /\ WF_vars(SmootherTick) /\ WF_vars(HoldTimePasses)


(***************************************************************************)
(* Claims about the acquisition loop.                                      *)
(***************************************************************************)
\* the session-epoch state as connect_muse leaves it (main.py 753-770)
SessionIsReset ==
    /\ eeg_buffer = <<>>
    /\ ~ica_fitted
    /\ ica_fit_buffer = 0
    /\ ica_fit_progress = 0
    /\ state_smoother.brain_state_history = <<>>
    /\ state_smoother.current_stable_state = "None"
    /\ ppg_buffer = 0

\* C1: with auto_reconnect, when the link was judged lost by the stall test and
\* the connect() of the reconnect attempt succeeds, is_streaming is true after
\* that step (the loop resumes).
C1_ResumesAfterReconnect ==
    [][(auto_reconnect /\ lost_by = "stall" /\ ReconnectSucceeds(StreamInputs))
           => is_streaming']_vars

\* C2: stream_data never makes more than max_reconnect_attempts consecutive
\* failed reconnect attempts, and once the link stays down (only stalls, chunk
\* errors and failing connects remain) it eventually returns.
C2_BoundedReconnects ==
    /\ [](failed_reconnects <= max_reconnect_attempts)
    /\ (<>[](link = "down") => <>(pc = "done"))

\* C2 witness: stream_data has returned after a failed reconnect on a dead link
C2_Witness == pc = "done" /\ link = "down" /\ failed_reconnects >= 1

\* C3: the step in which a reconnect of the acquisition loop succeeds leaves the
\* ChannelBuffer, the calibration model, the smoother and the HRV buffer reset.
C3_ReconnectResetsSession ==
    [][ReconnectSucceeds(StreamInputs) => SessionIsReset']_vars


(***************************************************************************)
(* Claims about the StateSmoother and the outbound label.                  *)
(***************************************************************************)
\* C4: a tick that changes the locked label of a StateSmoother comes at least
\* min_state_duration after the previous change of that label, and a tick whose
\* candidate differs from the locked label before that time leaves it unchanged.
C4_DwellLock ==
    (tick_info.ran /\ tick_info.label_before # "None") =>
        /\ (tick_info.locked_label # tick_info.label_before
                => tick_info.elapsed >= min_state_duration)
        /\ ((tick_info.candidate \notin {"keep", tick_info.label_before}
              /\ tick_info.elapsed < min_state_duration)
                => state_smoother.current_stable_state = tick_info.label_before)

\* C4 witness: a differing candidate arrived before the minimum duration had
\* elapsed and the locked label was kept
C4_Witness ==
    /\ tick_info.ran
    /\ tick_info.label_before # "None"
    /\ tick_info.candidate \notin {"keep", tick_info.label_before}
    /\ tick_info.elapsed < min_state_duration
    /\ state_smoother.current_stable_state = tick_info.label_before

\* C5: the brain_state of the outbound band_powers record of a tick is the label
\* the smoother holds locked after that tick.
C5_OutboundIsLockedLabel ==
    (tick_info.ran /\ outbound.type = "band_powers")
        => outbound.brain_state = state_smoother.current_stable_state

(***************************************************************************)
(* Claims about bad channels and the ICA calibration.                      *)
(***************************************************************************)
\* C6: on a tick with some but not all channels bad, no bad channel is among the
\* channels whose samples make the spectral input.
C6_GoodChannelsOnly ==
    (tick_info.ran /\ tick_info.bad_channels # {} /\ tick_info.bad_channels # Channels)
        => tick_info.spectral_src \cap tick_info.bad_channels = {}

\* C7: after a tick on which fit_ica was called and the fit failed, ica_fitted is
\* false, the calibration buffer is empty, progress is 0 and the outbound record
\* does not report fitted.
C7_FailedFitReturnsToUncalibrated ==
    (tick_info.ran /\ tick_info.fit_called /\ ~tick_info.fit_ok)
        => /\ ~ica_fitted
           /\ ica_fit_buffer = 0
           /\ ica_fit_progress = 0
           /\ ~outbound.fitted

\* C8: in a session epoch fit_ica is called at most once, a tick that starts with
\* ica_fitted true neither appends to the calibration buffer nor calls fit_ica,
\* and the calibration buffer is empty whenever ica_fitted is true.
C8_FitOncePerEpoch ==
    /\ tick_info.fits <= 1
    /\ (tick_info.ran /\ tick_info.fitted_before)
           => (~tick_info.appended /\ ~tick_info.fit_called)
    /\ ica_fitted => ica_fit_buffer = 0

\* C8 witness: a tick has run in the Fitted state of an epoch in which the fit
\* was made
C8_Witness ==
    /\ ica_fitted
    /\ tick_info.ran
    /\ tick_info.fitted_before
    /\ tick_info.fits = 1

C15_TickEveryBufferSize ==
    (tick_info.ran /\ tick_info.gap >= 0) => tick_info.gap >= BufferSize

\* C16: the tick that takes the calibration from Uncalibrated to Fitted runs
\* when at least 30 x 256 (here IcaWindows x BufferSize) samples have been
\* received since the last reset.
C16_FitAfterFullCalibrationData ==
    (tick_info.ran /\ tick_info.fit_called /\ ~tick_info.fitted_before /\ ica_fitted)
        => tick_info.at_samples >= IcaWindows * BufferSize

\* C17: on a tick in which all four channels are bad, all four channels are
\* the source of the spectral input and the outbound record of that tick has
\* has_artifact true.
C17_AllBadIsFlagged ==
    (tick_info.ran /\ tick_info.bad_channels = Channels)
        => (tick_info.spectral_src = Channels /\ outbound.has_artifact)

\* C18 (as the code has it): after a tick, a channel is in bad_channels exactly
\* when some sample of it in the window is strictly above the threshold in
\* absolute value; a channel whose maximum equals the threshold is not in it.
C18_BadChannelsStrictlyAbove ==
    tick_info.ran =>
        \A ch \in Channels :
            ch \in tick_info.bad_channels
                <=> \E i \in 1..Len(eeg_buffer) :
                        Abs(eeg_buffer[i][ch]) > BadChannelThreshold

\* C18 witness: a tick has run on a window with a channel whose maximum is
\* exactly the threshold (not reported), one above it (reported) and one below
C18_Witness ==
    /\ tick_info.ran
    /\ \E ch \in Channels \ tick_info.bad_channels :
          /\ \A i \in 1..Len(eeg_buffer) : Abs(eeg_buffer[i][ch]) <= BadChannelThreshold
          /\ \E i \in 1..Len(eeg_buffer) : Abs(eeg_buffer[i][ch]) = BadChannelThreshold
    /\ \E ch \in tick_info.bad_channels :
          \E i \in 1..Len(eeg_buffer) : Abs(eeg_buffer[i][ch]) > BadChannelThreshold
    /\ \E ch \in Channels \ tick_info.bad_channels :
          \A i \in 1..Len(eeg_buffer) : Abs(eeg_buffer[i][ch]) < BadChannelThreshold

\* C18 as stated: above the threshold always reported, below never, and a
\* channel whose maximum equals the threshold exactly is reported.
C18_BoundaryInclusive ==
    tick_info.ran =>
        \A ch \in Channels :
            ch \in tick_info.bad_channels
                <=> \E i \in 1..Len(eeg_buffer) :
                        Abs(eeg_buffer[i][ch]) >= BadChannelThreshold

(***************************************************************************)
(* Claims about the broadcast.                                             *)
(***************************************************************************)
\* C9: in the last broadcast that returned, every subscriber that stayed
\* registered from its start to its end was sent the message exactly once.
C9_EachSubscriberOnce ==
    \A c \in bc_last.present : bc_last.sent[c] = 1

\* C10: while a send of a broadcast is pending, stream_data is not held in the
\* callback (it can pull the next chunk), and every other subscriber registered
\* since the start of the broadcast has already been sent the message.
C10_LoopNotBlocked ==
    bc_sending # 0 =>
        /\ pc # "callback"
        /\ \A c \in bc_present \ {bc_sending} : bc_sent[c] >= 1

(***************************************************************************)
(* Claims about sessions.                                                  *)
(***************************************************************************)
\* C11: at most one stream_data loop is active at any moment: a task that was
\* suspended when a later /api/connect created a new task never pulls a chunk
\* again while the new task is inside its inner loop.
C11_SingleLoop ==
    ~(older.pulled /\ older.pc \in {"sleep", "callback"}
                   /\ pc \in {"sleep", "callback"})

\* C20: the connect() of /api/connect succeeds exactly when the EEG stream is
\* resolved; after a success the inlet of every optional stream that could not
\* be resolved is None; when the EEG stream is missing no inlet is opened.
C20_ConnectContract ==
    [][ConnectMuse =>
          /\ (pc' = "start") <=> (link = "up")
          /\ link = "up" => \A o \in Optional \ opt_streams : ~opt_inlets'[o]
          /\ link = "down" => /\ eeg_inlet' => eeg_inlet
                              /\ \A o \in Optional : opt_inlets'[o] => opt_inlets[o]]_vars

\* C12: when /api/connect succeeds on a disconnected streamer, the posture
\* lock, the TalkingDetector and the ArtifactDetector hold nothing from the
\* session before: they are as after construction.
C12_EnginesFreshAfterConnect ==
    [][(~is_streaming /\ ~eeg_inlet /\ ConnectMuse /\ pc' = "start")
           => motion' = NewMotion]_vars

\* C13: /api/disconnect re-initialises the session state: after it the channel
\* buffer is empty, the calibration is Uncalibrated with an empty buffer and
\* progress 0, the smoother has no history and no locked label, and the
\* HRVCalculator has an empty pulse buffer and no cached heart rate.
C13_DisconnectReinitialises ==
    [][DisconnectMuse =>
          /\ eeg_buffer' = <<>>
          /\ ~ica_fitted' /\ ica_fit_buffer' = 0 /\ ica_fit_progress' = 0
          /\ state_smoother'.brain_state_history = <<>>
          /\ state_smoother'.current_stable_state = "None"
          /\ ppg_buffer' = 0
          /\ hrv'.last_valid_heart_rate = 0]_vars

(***************************************************************************)
(* Claims about the HRVCalculator.                                         *)
(***************************************************************************)
\* C14: when the last call of get_current_metrics detected at least two peaks,
\* or a heart rate is cached, the heart_rate it returned is not 0.
C14_ZeroOnlyWithoutPeaks ==
    (hrv.called /\ (Len(hrv.found) >= 2 \/ hrv.last_valid_heart_rate > 0))
        => hrv.heart_rate # 0

(***************************************************************************)
(* Claims about get_brain_state and calculate_band_powers.                 *)
(***************************************************************************)
StateLabel == {"focused", "peak_focus", "relaxed", "creative", "drowsy", "meditative",
               "deep_meditation", "entering_meditation", "returning", "mixed",
               "artifact_detected", "low_confidence", "unknown"}

ConversationRules(bp) ==
    << <<bp.delta > 40, "mixed">>,
       <<bp.beta > 30 /\ 2 * bp.beta > 3 * bp.alpha, "focused">>,
       <<bp.gamma > 15 /\ bp.beta > 25, "peak_focus">>,
       <<bp.alpha > 30 /\ bp.beta < 20, "relaxed">>,
       <<bp.theta > 25 /\ bp.alpha > 20, "creative">>,
       <<30 < bp.delta /\ bp.delta < 40 /\ bp.theta > 20, "drowsy">>,
       <<bp.beta > 20 \/ bp.gamma > 10, "focused">>,
       <<bp.alpha > 20, "relaxed">>,
       <<bp.theta > 15, "creative">>,
       <<bp.delta < 30, "relaxed">>,
       <<TRUE, "mixed">> >>

FirstMatch(rules) ==
    rules[CHOOSE i \in 1..Len(rules) :
              rules[i][1] /\ \A j \in 1..(i - 1) : ~rules[j][1]][2]

\* C22: in conversation context, for band powers with a non-zero sum,
\* get_brain_state returns the label of the first rule that matches, in the
\* order mixed (delta>40), focused, peak_focus, relaxed, creative, drowsy, then
\* focused, relaxed, creative, relaxed, mixed.
C22_FirstMatchWins ==
    (/\ tick_info.stage = "label"
     /\ ~tick_info.computed
     /\ ~tick_info.is_meditation
     /\ DOMAIN tick_info.band_powers # {}
     /\ BandTotal(tick_info.band_powers) # 0)
        => tick_info.raw_brain_state = FirstMatch(ConversationRules(tick_info.band_powers))

\* C22 witness: gamma>15 and beta>25 hold together with beta>30 and
\* beta/alpha>1.5, and the label is that of the earlier rule
C22_Witness ==
    /\ tick_info.stage = "label"
    /\ ~tick_info.computed
    /\ ~tick_info.is_meditation
    /\ DOMAIN tick_info.band_powers # {}
    /\ tick_info.band_powers.gamma > 15
    /\ tick_info.band_powers.beta > 30
    /\ tick_info.band_powers.delta <= 40
    /\ 2 * tick_info.band_powers.beta > 3 * tick_info.band_powers.alpha
    /\ tick_info.raw_brain_state = "focused"

\* C23: calculate_band_powers on a window of fewer than sample_rate samples
\* returns 0 for all five bands, and get_brain_state on band powers that are
\* all 0, or on an empty dict, returns unknown in the meditation and in the
\* conversation context.
C23_ShortWindowIsUnknown ==
    /\ (tick_info.computed /\ tick_info.n_samples < SAMPLE_RATE)
          => \A band \in Bands : tick_info.band_powers[band] = 0
    /\ (/\ tick_info.stage = "label"
        /\ \A band \in DOMAIN tick_info.band_powers : tick_info.band_powers[band] = 0)
          => tick_info.raw_brain_state = "unknown"

\* C23 witness: a window one sample short of a second, with power in every
\* band, has gone through both functions in the meditation context
C23_Witness ==
    /\ tick_info.stage = "label"
    /\ tick_info.computed
    /\ tick_info.n_samples = SAMPLE_RATE - 1
    /\ \A band \in Bands : tick_info.band_power[band] > 0
    /\ tick_info.is_meditation
    /\ tick_info.raw_brain_state = "unknown"

\* C24: for a window of at least one second, the band powers returned by
\* calculate_band_powers are not negative; when the total integrated power is
\* positive they sum to 100 within 1e-6, and otherwise each of them is 0.
C24_PercentagesSumTo100 ==
    (tick_info.computed /\ tick_info.n_samples >= SAMPLE_RATE) =>
        /\ \A band \in Bands : tick_info.band_powers[band] >= 0
        /\ IF BandTotal(tick_info.band_power) > 0
           THEN Abs(BandTotal(tick_info.band_powers) - 100 * PercentUnit)
                    <= PercentUnit \div 1000000
           ELSE \A band \in Bands : tick_info.band_powers[band] = 0

\* C24 witness: a one-second window whose percentages are not whole multiples
\* of the resolution (the band integrals are 2, 2, 1, 1, 1)
C24_Witness ==
    /\ tick_info.computed
    /\ tick_info.n_samples = SAMPLE_RATE
    /\ tick_info.band_power.delta = 2
    /\ tick_info.band_power.theta = 2
    /\ BandTotal(tick_info.band_power) = 7
    /\ BandTotal(tick_info.band_powers) # 100 * PercentUnit

(***************************************************************************)
(* Claims about the features of a tick.                                    *)
(***************************************************************************)
\* C25: on a tick whose window has one channel above the bad-channel threshold
\* while the other channels are clean, that channel is in bad_channels and the
\* data_quality of the tick is strictly lower than the data_quality of a tick
\* whose channels are all clean.
C25_BadChannelLowersQuality ==
    \A ch \in Channels :
        (/\ tick_info.ran
         /\ \E i \in 1..Len(eeg_buffer) : Abs(eeg_buffer[i][ch]) > BadChannelThreshold
         /\ \A i \in 1..Len(eeg_buffer) : \A other \in Channels \ {ch} :
                eeg_buffer[i][other] = CleanSample[other])
            => /\ ch \in tick_info.bad_channels
               /\ tick_info.data_quality <
                      extract_data_quality([i \in 1..Len(eeg_buffer) |-> CleanSample],
                                           FALSE)

\* C26: after a tick, when more than half of the ticks in the smoother window
\* are flagged as artifact, the outbound record of the tick has has_artifact
\* true, whatever the locked label and the tick's own flag.
C26_ArtifactRatioForcesFlag ==
    (/\ tick_info.ran
     /\ outbound.type = "band_powers"
     /\ 2 * ArtifactCount(state_smoother) > Len(state_smoother.has_artifact_history))
        => outbound.has_artifact

\* C26 witness: two of the three ticks in the window are flagged, the current
\* tick is not, the locked label is focused, and the record has has_artifact
C26_Witness ==
    /\ tick_info.ran
    /\ outbound.type = "band_powers"
    /\ Len(state_smoother.has_artifact_history) = WindowSize
    /\ 2 * ArtifactCount(state_smoother) > WindowSize
    /\ ~state_smoother.has_artifact_history[WindowSize]
    /\ state_smoother.current_stable_state = "focused"
    /\ outbound.has_artifact

\* the RR intervals of a list of peak times that lie within 400..2000 ms
RRWithin(peaks) ==
    {i \in 1..(Len(peaks) - 1) : /\ 400 <= peaks[i + 1] - peaks[i]
                                 /\ peaks[i + 1] - peaks[i] <= 2000}

\* C27: with at least three detected peaks 800 ms apart, calculate_hrv returns
\* valid with heart_rate 75; whenever it returns valid, at least two RR intervals
\* of the detected peaks lie within 400..2000 ms, and the rate is 60000 over
\* the mean of those intervals alone.
C27_FullValidation ==
    hrv.called =>
        /\ (/\ Len(hrv.found) >= 3
            /\ \A i \in 1..(Len(hrv.found) - 1) : hrv.found[i + 1] - hrv.found[i] = 800)
              => (hrv.full_valid /\ hrv.full_rate = 75)
        /\ hrv.full_valid =>
              LET kept == RRWithin(hrv.found)
                  total == SeqSum([i \in 1..Len(hrv.found) - 1 |->
                                      IF i \in kept THEN hrv.found[i + 1] - hrv.found[i]
                                      ELSE 0])
              IN /\ Cardinality(kept) >= 2
                 /\ hrv.full_rate = (60000 * Cardinality(kept)) \div total

\* C27 witness: three peaks 800 ms apart gave a valid result with rate 75
C27_Witness ==
    /\ hrv.called
    /\ Len(hrv.found) >= 3
    /\ \A i \in 1..(Len(hrv.found) - 1) : hrv.found[i + 1] - hrv.found[i] = 800
    /\ hrv.full_valid
    /\ hrv.full_rate = 75

\* C28: when get_current_metrics returns a result marked cached, its heart rate
\* was written to the cache by a calculation that passed the full validation,
\* never by the two-peak estimate, and the result is not also marked partial.
C28_CachedIsFullyValidated ==
    (hrv.called /\ hrv.cached) =>
        /\ hrv.heart_rate = hrv.last_valid_heart_rate
        /\ hrv.cache_src = "full"
        /\ ~hrv.partial

(***************************************************************************)
(* Claims about the TalkingDetector and the posture lock.                  *)
(***************************************************************************)
\* C29: two successive changes of is_talking are at least MIN_STATE_DURATION
\* (0.5 s) apart, and a call of update that changes is_talking leaves it at
\* the majority vote (more than 60 percent) over the detection history, which
\* holds the last detections, at most TalkWindow of them (10 in the code).
C29_TalkingDwellAndVote ==
    /\ motion.talk_flip_gap # -1 => 2 * motion.talk_flip_gap >= TalkTicks
    /\ Len(motion.detection_history) <= TalkWindow
    /\ motion.talk_flipped =>
          motion.is_talking =
              (10 * Cardinality({i \in 1..Len(motion.detection_history) :
                                    motion.detection_history[i]})
                   > 6 * Len(motion.detection_history))

\* C29 witness: is_talking has just changed back to false, half a second after
\* it had changed to true
C29_Witness ==
    /\ motion.talk_flipped
    /\ motion.talk_flip_gap # -1
    /\ 2 * motion.talk_flip_gap <= TalkTicks + 1
    /\ ~motion.is_talking

\* C30: after a tick, once posture_current_status is set, the status of the
\* posture interpretation of the tick is the locked status, and two successive
\* changes of the locked status are at least POSTURE_MIN_DURATION apart.
C30_PostureLock ==
    /\ (tick_info.ran /\ motion.posture_current_status # "None")
          => motion.posture_shown = motion.posture_current_status
    /\ motion.posture_lock_gap # -1 => motion.posture_lock_gap >= POSTURE_MIN_DURATION

\* C30 witness: the raw status differs from the locked one less than
\* POSTURE_MIN_DURATION after the lock last changed, and the locked status is
\* the one shown; the lock has changed before, no sooner than allowed
C30_Witness ==
    /\ tick_info.ran
    /\ motion.posture_current_status = "Good"
    /\ motion.posture_shown = "Good"
    /\ motion.posture_lock_gap >= POSTURE_MIN_DURATION
    /\ now - motion.posture_lock_time < POSTURE_MIN_DURATION
    /\ now > motion.posture_lock_time

(***************************************************************************)
(* Claims about the candidate and the progress of the StateSmoother.       *)
(***************************************************************************)
\* the labels whose share of the window h is at least 70 percent
ClearMajority(h) ==
    {h[i] : i \in {j \in 1..Len(h) : 10 * StateCount(h, h[j]) >= 7 * Len(h)}}

\* C31: at every tick the candidate of get_smoothed_brain_state is the label
\* whose share of the window is at least 70 percent when there is one;
\* otherwise artifact_detected when its share is above 30 percent, otherwise
\* low_confidence when its share is above 30 percent, and otherwise there is a
\* locked label and the call leaves it as it was.
C31_CandidateRule ==
    tick_info.ran =>
        LET h == state_smoother.brain_state_history
            c == tick_info.candidate
        IN IF ClearMajority(h) # {} THEN ClearMajority(h) = {c}
           ELSE IF 10 * StateCount(h, "artifact_detected") > 3 * Len(h)
               THEN c = "artifact_detected"
           ELSE IF 10 * StateCount(h, "low_confidence") > 3 * Len(h)
               THEN c = "low_confidence"
           ELSE /\ c = "keep"
                /\ tick_info.label_before # "None"
                /\ tick_info.locked_label = tick_info.label_before

\* C31 witness: a full window without a 70 percent label that holds both an
\* artifact_detected and a low_confidence label
C31_Witness ==
    /\ tick_info.ran
    /\ Len(state_smoother.brain_state_history) = WindowSize
    /\ ClearMajority(state_smoother.brain_state_history) = {}
    /\ StateCount(state_smoother.brain_state_history, "artifact_detected") > 0
    /\ StateCount(state_smoother.brain_state_history, "low_confidence") > 0
    /\ tick_info.candidate = "artifact_detected"

(***************************************************************************)
(* Claims about the stream handles and the end of stream_data.             *)
(***************************************************************************)
\* the attributes connect() would assign hold no open inlet
NothingToReplace ==
    ~eeg_inlet /\ \A o \in opt_streams : ~opt_inlets[o]

\* C32: no open inlet is replaced without close_stream: the connect() of
\* /api/connect assigns inlets only after disconnect() has closed the open ones
\* or when none is open, and so does the connect() of a reconnect attempt;
\* after /api/disconnect the four inlets are None and is_streaming is false,
\* and on a disconnected streamer it changes none of them.
C32_InletsClosedBeforeReplaced ==
    [][/\ (ConnectMuse /\ pc' = "start") => (is_streaming \/ NothingToReplace)
       /\ ReconnectSucceeds(StreamInputs) => NothingToReplace
       /\ DisconnectMuse =>
              /\ ~is_streaming' /\ ~eeg_inlet' /\ \A o \in Optional : ~opt_inlets'[o]
              /\ (~is_streaming /\ ~eeg_inlet /\ \A o \in Optional : ~opt_inlets[o])
                    => UNCHANGED <<is_streaming, eeg_inlet, opt_inlets>>]_vars

C34_RetriesUntilMaxAttempts ==
    [][RetryResume(StreamInputs) =>
          (pc' = "done" => failed_reconnects' >= max_reconnect_attempts)]_vars

\* C35: an iteration of the inner loop that does not raise leaves
\* consecutive_errors at zero, whether it processed a chunk or found no EEG
\* data, so only errors of successive iterations add up.
C35_ErrorCountIsConsecutive ==
    [][(ResumeInner(StreamInputs) /\ consecutive_errors' # consecutive_errors + 1)
           => consecutive_errors' = 0]_vars

\* C36: when stream_data has returned and no other stream_data task is
\* running, is_streaming is false, whatever auto_reconnect and
\* max_reconnect_attempts the call was made with.
C36_ReturnedMeansStopped ==
    (pc = "done" /\ older.pc \in {"none", "done"}) => ~is_streaming

(***************************************************************************)
(* Claims about the range of the heart rate and the calibration progress.  *)
(***************************************************************************)
\* C37: a heart_rate other than 0 returned by get_current_metrics lies within
\* 30..150 bpm, be the result fully valid, cached or partial; for a partial
\* result the interval of the last two peaks lies within 400..2000 ms, so the
\* rate before rounding is within the range as well.
C37_HeartRateInRange ==
    (hrv.called /\ hrv.heart_rate # 0) =>
        /\ 30 <= hrv.heart_rate /\ hrv.heart_rate <= 150
        /\ 30 <= hrv.last_valid_heart_rate /\ hrv.last_valid_heart_rate <= 150
        /\ hrv.partial =>
              LET k == Len(hrv.peak_times)
                  rr_ms == hrv.peak_times[k] - hrv.peak_times[k - 1]
              IN 30 * rr_ms <= 60000 /\ 60000 <= 150 * rr_ms

\* C37 witness: a cached rate of 150 bpm, the upper end of the range, is
\* returned by a call that found no peaks
C37_Witness ==
    /\ hrv.called
    /\ hrv.cached
    /\ hrv.found = <<>>
    /\ hrv.heart_rate = 150

\* C38: the ica_status of the record a tick broadcasts carries the progress and
\* the fitted flag as the tick leaves them; the progress is within 0..100, it
\* is 100 exactly when ica_fitted is true, and a tick lowers it only when its
\* fit attempt failed (the handlers reset it between ticks).
C38_ProgressOfCalibration ==
    [][(tick_info'.ran /\ (tick_info' # tick_info \/ outbound' # outbound)) =>
          /\ outbound'.progress = ica_fit_progress'
          /\ outbound'.fitted = ica_fitted'
          /\ outbound'.progress \in 0..100
          /\ (outbound'.progress = 100) <=> outbound'.fitted
          /\ ica_fit_progress' < ica_fit_progress
                => (tick_info'.fit_called /\ ~tick_info'.fit_ok)]_vars

\* C38 witness: a session that follows one in which the fit was made is
\* calibrating again, and its last record carries a progress below 100
C38_Witness ==
    /\ tick_info.ran
    /\ ~ica_fitted
    /\ ica_fit_progress > 0
    /\ ica_fit_progress < 100
    /\ outbound.progress = ica_fit_progress
    /\ mne_ica_fitted

(***************************************************************************)
(* Claims about the progress of the hysteresis.                            *)
(***************************************************************************)
\* C39: once every raw label given to add_sample is the same label L, with
\* ticks going on and time advancing, the label get_smoothed_brain_state
\* returns, and locks, becomes L and stays L.
C39_PersistentLabelWins ==
    \A L \in HoldLabels :
        (tick_info.hold = L) ~>
            [](tick_info.locked_label = L /\ state_smoother.current_stable_state = L)

\* C39 witness: the labels have settled on relaxed, and a tick has just moved
\* the lock from focused to relaxed
C39_Witness ==
    /\ tick_info.hold = "relaxed"
    /\ tick_info.label_before = "focused"
    /\ tick_info.locked_label = "relaxed"
    /\ state_smoother.current_stable_state = "relaxed"
    /\ state_smoother.state_change_time = now

====
